---- MODULE Spec2Model ----
(***************************************************************************)
(* Model of the end-to-end encryption core of the NoChat desktop client   *)
(* (packages/desktop/src-tauri/src/crypto): the X3DH key agreement of     *)
(* x3dh.rs, the RatchetSession wrapper of ratchet.rs, the SessionStore of *)
(* sessions.rs and the CryptoService facade of service.rs.                *)
(*                                                                         *)
(* Cryptographic primitives are modelled by what they compute on a toy    *)
(* domain: Diffie-Hellman is modular exponentiation in the subgroup of    *)
(* prime order 11 of Z_23^*, a signature is a deterministic function of   *)
(* the signer's scalar and the message, and a KDF is an injective         *)
(* function of its ordered input.                                          *)
(***************************************************************************)
EXTENDS Integers, Sequences, FiniteSets, TLC

VARIABLES
    xkeys,      \* x3dh: the long-term secrets of both parties
    bundle,     \* x3dh: Bob's PreKeyBundle as Alice holds it (wire copy)
    xinit,      \* x3dh: outcome of x3dh_initiate
    xresp,      \* x3dh: outcome of x3dh_respond
    ephDrawn,   \* x3dh: number of ephemeral key pairs generated so far
    acct,       \* ratchet: each party's OlmAccount (identity, one-time keys)
    sess,       \* ratchet: each party's RatchetSession, if it has one
    rnet,       \* ratchet: every message sent so far (the network keeps copies)
    delivered,  \* ratchet: ids of the messages decrypted successfully so far
    sentCount,  \* ratchet: number of messages each party has encrypted
    gotReply,   \* ratchet: whether each party has decrypted a message
    restored,   \* ratchet: whether each party's session went through a pickle
    nextKey,    \* ratchet: the next fresh key identifier
    last,       \* ratchet: what the last operation returned
    sessions,   \* service: CryptoService.sessions, the cache peer_id -> session
    vault,      \* service: the peer_sessions table, peer_id -> pickled session
    pending,    \* service: the call suspended at a vault write, if any
    tasks,      \* tasks: each concurrent caller's call and its position in it
    locks,      \* tasks: the holder of CryptoService.sessions and .account locks
    vaultAccount, \* tasks: the crypto_account row, the pickled OlmAccount
    pickleKey,  \* vault: the pickle key of the running service and its store
    cryptoKeys, \* vault: the rows of the crypto_keys table
    klast,      \* vault: the last call on the crypto_keys table and its result
    wire,       \* wire: the last conversion between a message and its bytes
    manager,    \* prekeys: the PreKeyManager
    generated,  \* prekeys: number of key pairs Curve25519KeyPair::generate made
    now,        \* prekeys: the clock, chrono::Utc::now().timestamp() in days
    handshake,  \* prekeys: a first contact built from a fetched bundle
    plast       \* prekeys: the last call on the manager and the catalog before it

xvars == <<xkeys, bundle, xinit, xresp, ephDrawn>>

rvars == <<acct, sess, rnet, delivered, sentCount, gotReply, restored, nextKey, last>>

svars == <<sessions, vault, pending>>

tvars == <<tasks, locks, vaultAccount>>

kvars == <<pickleKey, cryptoKeys, klast, wire>>

pvars == <<manager, generated, now, handshake, plast>>

vars == <<xkeys, bundle, xinit, xresp, ephDrawn,
          acct, sess, rnet, delivered, sentCount, gotReply, restored, nextKey, last,
          sessions, vault, pending, tasks, locks, vaultAccount, pickleKey,
          cryptoKeys, klast, wire,
          manager, generated, now, handshake, plast>>

(***************************************************************************)
(* Bounds of the model.                                                    *)
(***************************************************************************)
\* number of distinct Ed25519 seeds an identity is drawn from
MaxSeed == 3
\* number of distinct Curve25519 secrets a prekey or ephemeral is drawn from
MaxSecret == 3
\* largest one-time prekey id used in a bundle
MaxKeyId == 2
\* number of messages each party encrypts
MaxSend == 3
\* number of messages both parties encrypt together
MaxTotal == 4
\* number of distinct plaintexts
MaxPlain == 2
\* number of calls made on the service between two initialisations
MaxCalls == 2
\* number of times the service is initialised
MaxStarts == 2
\* number of ratchet key pairs generated after the handshake
MaxFresh == 3
\* PreKeyConfig of the catalog: batch sizes, low-water mark, maximum age in days
InitialBatch == 2
ReplenishBatch == 2
MinPrekeyCount == 1
MaxAgeDays == 1
\* number of days the clock runs
MaxNow == 2
\* number of key pairs the catalog generates
MaxKeyPairs == 7
\* number of distinct random pickle keys
MaxPickleKey == 2
\* number of one-time prekeys one save_one_time_prekeys call is given
KeyRowBatch == 9
\* number of signed prekey generations stored in the key table
MaxSignedRows == 2
\* length of the byte strings from_bytes is given
MaxBytes == 3
\* length of the sender identities and ciphertexts a wrapper is built with
MaxIdentityLen == 2
\* number of concurrent callers of the service, and of first-contact messages
MaxTasks == 2

None == <<>>
Some(x) == <<x>>

(***************************************************************************)
(* Key primitives (keys.rs).                                               *)
(***************************************************************************)
\* The toy group: the subgroup generated by g in Z_p^*, of prime order q.
Group == [p |-> 23, g |-> 2, q |-> 11]

RECURSIVE ModExp(_, _)
ModExp(b, e) == IF e = 0 THEN 1 ELSE (b * ModExp(b, e - 1)) % Group.p

\* every element of the group: the domain of Curve25519 public keys
Points == {ModExp(Group.g, e) : e \in 0..(Group.q - 1)}

\* Curve25519PublicKey::from(&secret): base point multiplication; the base
\* point has order q, so the scalar counts modulo q
PublicOf(secret) == ModExp(Group.g, secret % Group.q)

\* Curve25519KeyPair::diffie_hellman
diffie_hellman(secret, their_public) == ModExp(their_public, secret)

\* Curve25519KeyPair { public, secret } built from a secret
Curve25519KeyPair(secret) == [secret |-> secret, public |-> PublicOf(secret)]

\* SHA-512(seed)[0..32] with Curve25519 clamping: the scalar of an Ed25519 seed
ClampedScalar(seed) == ((seed * 7 + 3) % (Group.q - 1)) + 1

\* Ed25519SecretKey::public_key: the compressed Edwards point of the scalar,
\* its Montgomery u-coordinate together with the sign bit of x
Ed25519Public(seed) ==
    [u |-> ModExp(Group.g, ClampedScalar(seed)), sign |-> ClampedScalar(seed) % 2]

\* the digest of a message as a scalar: injective on the group's points
Digest(m) == Cardinality({x \in Points : x <= m}) % Group.q

\* IdentityKeyPair::sign: a deterministic detached signature
sign(seed, message) == (ClampedScalar(seed) * Digest(message)) % Group.q

\* Ed25519PublicKey::verify; a signature that is not a scalar is malformed
Ed25519Verify(public, message, signature) ==
    /\ signature \in 0..(Group.q - 1)
    /\ ModExp(Group.g, signature) = ModExp(public.u, Digest(message))

\* SignedPreKey::new that signs the key id in place of the public key
SignedPreKey_signing_id(key_id, key_pair, identity_seed, time) ==
    [key_id |-> key_id,
     public_key |-> key_pair.public,
     signature |-> sign(identity_seed, key_id),
     created_at |-> time]

\* SignedPreKey::new, called at time: created_at is `chrono::Utc::now()`
SignedPreKey(key_id, key_pair, identity_seed, time) ==
    [key_id |-> key_id,
     public_key |-> key_pair.public,
     signature |-> sign(identity_seed, key_pair.public),
     created_at |-> time]

\* SignedPreKey::verify that accepts every signature
SignedPreKey_verify_unchecked(spk, identity_public) == TRUE

\* SignedPreKey::verify
SignedPreKey_verify(spk, identity_public) ==
    Ed25519Verify(identity_public, spk.public_key, spk.signature)

\* SignedPreKey::is_expired, called at time; ages and max_age_days count days
SignedPreKey_is_expired(spk, max_age_days, time) == time - spk.created_at > max_age_days

\* OneTimePreKey::new
OneTimePreKey(key_id, key_pair) == [key_id |-> key_id, public_key |-> key_pair.public]

(***************************************************************************)
(* X3DH (x3dh.rs).                                                         *)
(***************************************************************************)
\* PreKeyBundle::verify
PreKeyBundle_verify(b) == SignedPreKey_verify(b.signed_prekey, b.identity_key)

\* convert_ed25519_to_curve25519_secret
convert_ed25519_to_curve25519_secret(ed_secret) ==
    Curve25519KeyPair(ClampedScalar(ed_secret))

\* convert_ed25519_to_curve25519_public: Edwards to Montgomery drops the sign
convert_ed25519_to_curve25519_public(ed_public) == ed_public.u

\* kdf_x3dh: HKDF over 0xFF-padding || dh1 || dh2 || dh3 [|| dh4]
kdf_x3dh(dh1, dh2, dh3, dh4) == <<255, dh1, dh2, dh3>> \o dh4

\* the outcome x3dh_initiate returns for ephemeral secret ek
x3dh_initiate(our_identity, their_bundle, ek) ==
    IF ~PreKeyBundle_verify(their_bundle)
    THEN [state |-> "err", shared_secret |-> <<>>, ephemeral_public |-> 0,
          used_one_time_prekey |-> None]
    ELSE
      LET ephemeral == Curve25519KeyPair(ek)
          their_signed_prekey == their_bundle.signed_prekey.public_key
          our_identity_curve == convert_ed25519_to_curve25519_secret(our_identity)
          dh1 == diffie_hellman(our_identity_curve.secret, their_signed_prekey)
          their_identity_curve ==
              convert_ed25519_to_curve25519_public(their_bundle.identity_key)
          dh2 == diffie_hellman(ephemeral.secret, their_identity_curve)
          dh3 == diffie_hellman(ephemeral.secret, their_signed_prekey)
          otk == their_bundle.one_time_prekey
          dh4 == IF otk # None
                 THEN Some(diffie_hellman(ephemeral.secret, otk[1].public_key))
                 ELSE None
          used_otk_id == IF otk # None THEN Some(otk[1].key_id) ELSE None
      IN [state |-> "ok",
          shared_secret |-> kdf_x3dh(dh1, dh2, dh3, dh4),
          ephemeral_public |-> ephemeral.public,
          used_one_time_prekey |-> used_otk_id]

\* x3dh_respond with DH2 and DH3 concatenated in the other order
x3dh_respond_swapped(our_identity, our_signed_prekey, our_one_time_prekey, their_identity, their_ephemeral) ==
    LET their_identity_curve == convert_ed25519_to_curve25519_public(their_identity)
        dh1 == diffie_hellman(our_signed_prekey.secret, their_identity_curve)
        our_identity_curve == convert_ed25519_to_curve25519_secret(our_identity)
        dh2 == diffie_hellman(our_identity_curve.secret, their_ephemeral)
        dh3 == diffie_hellman(our_signed_prekey.secret, their_ephemeral)
        dh4 == IF our_one_time_prekey # None
               THEN Some(diffie_hellman(our_one_time_prekey[1].secret, their_ephemeral))
               ELSE None
    IN kdf_x3dh(dh1, dh3, dh2, dh4)

\* x3dh_respond
x3dh_respond(our_identity, our_signed_prekey, our_one_time_prekey, their_identity, their_ephemeral) ==
    LET their_identity_curve == convert_ed25519_to_curve25519_public(their_identity)
        dh1 == diffie_hellman(our_signed_prekey.secret, their_identity_curve)
        our_identity_curve == convert_ed25519_to_curve25519_secret(our_identity)
        dh2 == diffie_hellman(our_identity_curve.secret, their_ephemeral)
        dh3 == diffie_hellman(our_signed_prekey.secret, their_ephemeral)
        dh4 == IF our_one_time_prekey # None
               THEN Some(diffie_hellman(our_one_time_prekey[1].secret, their_ephemeral))
               ELSE None
    IN kdf_x3dh(dh1, dh2, dh3, dh4)

(***************************************************************************)
(* The X3DH handshake as a state machine: Bob publishes a bundle, the      *)
(* network may alter the copy Alice fetches, Alice initiates, Bob responds.*)
(* The network alters one field of the signed prekey record: it does not  *)
(* hold Bob's identity secret, so it cannot compute a matching pair.      *)
(***************************************************************************)
NoInit == [state |-> "none", shared_secret |-> <<>>, ephemeral_public |-> 0,
           used_one_time_prekey |-> None]
NoResp == [state |-> "none", shared_secret |-> <<>>]

\* the bundle Bob builds from his own keys (test_x3dh_key_agreement)
BundleOf(k) ==
    [identity_key |-> Ed25519Public(k.ikB),
     signed_prekey |-> SignedPreKey(1, Curve25519KeyPair(k.spkB), k.ikB, 0),
     one_time_prekey |->
         IF k.otkB = None THEN None
         ELSE Some(OneTimePreKey(k.otkId, Curve25519KeyPair(k.otkB[1])))]

XKeys ==
    [ikA : 1..MaxSeed, ikB : 1..MaxSeed, spkB : 1..MaxSecret,
     otkB : {None} \cup {Some(s) : s \in 1..MaxSecret}, otkId : 1..MaxKeyId]

Parties == {"alice", "bob"}
Other(p) == IF p = "alice" THEN "bob" ELSE "alice"

NoId == [from |-> "", seq |-> 0]
NoLast == [op |-> "none", party |-> "", ok |-> FALSE, plaintext |-> None, id |-> NoId,
           first |-> FALSE, altered |-> FALSE, skipped |-> FALSE,
           before |-> None, produced |-> None]

\* the peer ids a caller passes: the peer's user id, or its identity key in hex
PeerIds == {"bob", "02"}

\* what the service variables are in every state of the other specifications
SIdle ==
    /\ sessions = [k \in PeerIds |-> None]
    /\ vault = [k \in PeerIds |-> None]
    /\ pending = None

\* the catalog variables in every state of the other specifications
NoManager == [identity |-> 0, signed_prekey |-> [secret |-> 0, public |-> 0],
              signed_prekey_id |-> 0, signed_prekey_created |-> 0,
              one_time_prekeys |-> <<>>, next_prekey_id |-> 0,
              config |-> [initial_batch_size |-> 0, replenishment_batch_size |-> 0,
                          min_prekey_count |-> 0, signed_prekey_max_age_days |-> 0]]
NoHandshake == [state |-> "none", bundle |-> None, init |-> NoInit,
                signed_prekey_id |-> 0, one_time_prekey |-> None, shared_secret |-> <<>>]
NoPLast == [op |-> "none", repeated |-> FALSE, before |-> NoManager, key_id |-> 0,
            result |-> None]

PIdle ==
    /\ manager = NoManager
    /\ generated = 0
    /\ now = 0
    /\ handshake = NoHandshake
    /\ plast = NoPLast

\* the random pickle keys generate_pickle_key may return
PickleKeys == 1..MaxPickleKey

\* no call on the crypto_keys table yet
NoKLast == [op |-> "none", readable |-> TRUE, result |-> FALSE]

\* no conversion yet
NoWire == [op |-> "none", given |-> <<>>, bytes |-> <<>>, result |-> <<>>]

\* the crypto_keys table in every state of the specifications that store no
\* keys, and the conversions in those that convert nothing
KeyTableIdle ==
    /\ cryptoKeys = {}
    /\ klast = NoKLast
    /\ wire = NoWire

\* the pickle key in every state of the specifications that start no service
KIdle ==
    /\ pickleKey = 1
    /\ KeyTableIdle

\* the concurrent callers of one CryptoService
Tasks == 1..MaxTasks

NoResult == [ok |-> FALSE, error |-> "", value |-> None]
NoIo == [account_saved |-> "unused", session_saved |-> "unused"]
NoTask == [pc |-> "idle", op |-> "none", peer_id |-> "", pt |-> 0, ik |-> None, otk |-> 0,
           msgid |-> NoId,
           fresh |-> 0, after |-> {}, io |-> NoIo, session |-> None, plaintext |-> None,
           message |-> None, todo |-> {}, result |-> NoResult]
NoLocks == [sessions |-> 0, account |-> 0, sessions_readers |-> {}, account_readers |-> {}]

\* what the task variables are in every state of the specifications without tasks
TIdle ==
    /\ tasks = [t \in Tasks |-> NoTask]
    /\ locks = NoLocks
    /\ vaultAccount = None

\* what the ratchet variables are in every state of the x3dh specification
RIdle ==
    /\ acct = [p \in Parties |-> [identity |-> 0, one_time_keys |-> {}, unpublished |-> {}]]
    /\ sess = [p \in Parties |-> None]
    /\ rnet = {}
    /\ delivered = {}
    /\ sentCount = [p \in Parties |-> 0]
    /\ gotReply = [p \in Parties |-> FALSE]
    /\ restored = [p \in Parties |-> FALSE]
    /\ nextKey = 0
    /\ last = NoLast

XInit ==
    /\ KIdle
    /\ PIdle
    /\ RIdle
    /\ SIdle
    /\ TIdle
    /\ xkeys \in {k \in XKeys : k.ikA # k.ikB}
    /\ bundle = BundleOf(xkeys)
    /\ xinit = NoInit
    /\ xresp = NoResp
    /\ ephDrawn = 0

\* the signature bytes of the fetched bundle are altered (-1: not a signature)
TamperSignature(v) ==
    /\ xinit.state = "none"
    /\ bundle = BundleOf(xkeys)
    /\ v # bundle.signed_prekey.signature
    /\ bundle' = [bundle EXCEPT !.signed_prekey.signature = v]
    /\ UNCHANGED <<xkeys, xinit, xresp, ephDrawn>>
    /\ UNCHANGED rvars
    /\ UNCHANGED svars
    /\ UNCHANGED tvars
    /\ UNCHANGED pvars
    /\ UNCHANGED kvars

\* the public key bytes of the fetched bundle's signed prekey are altered
TamperPublicKey(v) ==
    /\ xinit.state = "none"
    /\ bundle = BundleOf(xkeys)
    /\ v # bundle.signed_prekey.public_key
    /\ bundle' = [bundle EXCEPT !.signed_prekey.public_key = v]
    /\ UNCHANGED <<xkeys, xinit, xresp, ephDrawn>>
    /\ UNCHANGED rvars
    /\ UNCHANGED svars
    /\ UNCHANGED tvars
    /\ UNCHANGED pvars
    /\ UNCHANGED kvars

\* Alice runs x3dh_initiate on the bundle she holds
X3dhInitiate(ek) ==
    /\ xinit.state = "none"
    /\ xinit' = x3dh_initiate(xkeys.ikA, bundle, ek)
    /\ ephDrawn' = IF PreKeyBundle_verify(bundle) THEN ephDrawn + 1 ELSE ephDrawn
    /\ UNCHANGED <<xkeys, bundle, xresp>>
    /\ UNCHANGED rvars
    /\ UNCHANGED svars
    /\ UNCHANGED tvars
    /\ UNCHANGED pvars
    /\ UNCHANGED kvars

\* Bob runs x3dh_respond with the keys the X3dhHeader names
X3dhRespond ==
    /\ xinit.state = "ok"
    /\ xresp.state = "none"
    /\ xresp' =
         [state |-> "ok",
          shared_secret |->
              x3dh_respond(xkeys.ikB, Curve25519KeyPair(xkeys.spkB),
                           IF xinit.used_one_time_prekey # None
                           THEN Some(Curve25519KeyPair(xkeys.otkB[1])) ELSE None,
                           Ed25519Public(xkeys.ikA), xinit.ephemeral_public)]
    /\ UNCHANGED <<xkeys, bundle, xinit, ephDrawn>>
    /\ UNCHANGED rvars
    /\ UNCHANGED svars
    /\ UNCHANGED tvars
    /\ UNCHANGED pvars
    /\ UNCHANGED kvars

XNext ==
    \/ \E v \in (0..(Group.q - 1)) \cup {-1} : TamperSignature(v)
    \/ \E v \in Points : TamperPublicKey(v)
    \/ \E ek \in 1..MaxSecret : X3dhInitiate(ek)
    \/ X3dhRespond

SpecX3DH == XInit /\ [][XNext]_vars

\* the one-time prekey id of a bundle, as an Option
BundleOtkId(b) ==
    IF b.one_time_prekey = None THEN None ELSE Some(b.one_time_prekey[1].key_id)

\* C1: X3DH symmetry. Whenever Alice has initiated on Bob's bundle and Bob has
\* responded with his own keys and Alice's ephemeral, both hold the same shared
\* secret, with and without a one-time prekey; used_one_time_prekey is the id
\* of the bundle's one-time prekey when it carries one and none otherwise, and
\* initiating on an unaltered bundle without a one-time prekey succeeds.
C1_X3dhSymmetry ==
    /\ xresp.state = "ok" => xinit.shared_secret = xresp.shared_secret
    /\ xinit.state = "ok" => xinit.used_one_time_prekey = BundleOtkId(bundle)
    /\ (xinit.state # "none" /\ bundle = BundleOf(xkeys)) => xinit.state = "ok"

\* Both sides have derived a secret from a bundle that carried a one-time prekey.
C1_Witness ==
    /\ xresp.state = "ok"
    /\ xkeys.otkB # None
    /\ xinit.used_one_time_prekey = Some(xkeys.otkId)
    /\ Len(xresp.shared_secret) = 5

\* Both sides have derived a secret from a bundle without a one-time prekey.
C1_WitnessNoOtk ==
    /\ xresp.state = "ok"
    /\ xkeys.otkB = None
    /\ Len(xresp.shared_secret) = 4

\* C2: bundle signature integrity. The bundle the owner produced verifies; a
\* bundle whose signed prekey signature or public key was altered after signing
\* fails PreKeyBundle.verify(), and x3dh_initiate on it fails before an
\* ephemeral key is generated or a shared secret derived.
C2_BundleIntegrity ==
    /\ PreKeyBundle_verify(BundleOf(xkeys))
    /\ bundle # BundleOf(xkeys) => ~PreKeyBundle_verify(bundle)
    /\ (bundle # BundleOf(xkeys) /\ xinit.state # "none") =>
          /\ xinit.state = "err"
          /\ ephDrawn = 0
          /\ xinit.shared_secret = <<>>
          /\ xinit.ephemeral_public = 0
          /\ xresp.state = "none"

\* x3dh_initiate has been run on a bundle whose signed prekey public key was altered.
C2_Witness ==
    /\ xinit.state = "err"
    /\ bundle.signed_prekey.public_key # BundleOf(xkeys).signed_prekey.public_key
    /\ bundle.signed_prekey.signature = BundleOf(xkeys).signed_prekey.signature

(***************************************************************************)
(* The Double Ratchet session (the vodozemac Session that ratchet.rs       *)
(* wraps), after section 4.4 of the specification.  Keys are symbolic: a   *)
(* ratchet key pair is an identifier, a DH output is the pair of the two   *)
(* key identifiers that went into it, a root key is the sequence of KDF    *)
(* inputs mixed into it, and a chain key is a root with a step count.      *)
(***************************************************************************)
\* skipped-key cache bound per chain
MAX_SKIP == 1000

\* DH of two ratchet keys, named by the identifiers of both key pairs
DH(secret, public) == {secret, public}

\* KDF_RK(RK, dh_out) -> (RK', CK)
KDF_RK(rk, dh_out) ==
    [rk |-> Append(rk, dh_out), ck |-> [root |-> Append(rk, dh_out), n |-> 0]]

\* KDF_CK(CK) -> (CK', MK): the message key is named by the chain key it came from
KDF_CK(ck) == [ck |-> [root |-> ck.root, n |-> ck.n + 1], mk |-> ck]

\* AEAD(MK, header, plaintext): the ciphertext names its key and associated data
AEAD_seal(mk, header, pt) == [mk |-> mk, ad |-> header, pt |-> pt]

\* AEAD^-1 authenticates under the derived key and the received header
AEAD_open(mk, header, ct) == ct.mk = mk /\ ct.ad = header

\* the shared secret of the handshake, from the four keys that went into it
SharedSecret(initiator_identity, responder_identity, base_key, one_time_key) ==
    {initiator_identity, responder_identity, base_key, one_time_key}

\* initiator side: RK = SK, fresh DHs, sending chain seeded against the prekey
Session_outbound(our_identity, their_identity, their_otk, base_key, ratchet_key) ==
    LET sk == SharedSecret(our_identity, their_identity, base_key, their_otk)
        r == KDF_RK(<<sk>>, DH(ratchet_key, their_otk))
    IN [RK |-> r.rk, DHs |-> ratchet_key, DHr |-> Some(their_otk),
        CKs |-> Some(r.ck), Ns |-> 0, PN |-> 0, CKr |-> None, Nr |-> 0,
        MKSKIPPED |-> {}, received |-> FALSE,
        session_keys |-> [identity |-> our_identity, base |-> base_key, otk |-> their_otk]]

\* responder side before its first receive: RK = SK, DHs is the prekey pair
Session_inbound(our_identity, their_identity, session_keys) ==
    LET sk == SharedSecret(their_identity, our_identity, session_keys.base, session_keys.otk)
    IN [RK |-> <<sk>>, DHs |-> session_keys.otk, DHr |-> None,
        CKs |-> None, Ns |-> 0, PN |-> 0, CKr |-> None, Nr |-> 0,
        MKSKIPPED |-> {}, received |-> FALSE,
        session_keys |-> session_keys]

\* encrypt step 2 and 3: advance the sending chain, PreKey until a reply was decrypted
Session_encrypt(s, pt) ==
    LET step == KDF_CK(s.CKs[1])
        header == [dh |-> s.DHs, pn |-> s.PN, n |-> s.Ns]
    IN [session |-> [s EXCEPT !.CKs = Some(step.ck), !.Ns = @ + 1],
        message |-> [type |-> IF s.received THEN "Normal" ELSE "PreKey",
                     session_keys |-> IF s.received THEN None ELSE Some(s.session_keys),
                     header |-> header,
                     ct |-> AEAD_seal(step.mk, header, pt)]]

\* whether skipping the receiving chain to counter `until` exceeds MAX_SKIP
SkipExceeds(s, until) == s.CKr # None /\ until - s.Nr > MAX_SKIP

\* decrypt step 3 that advances the receiving chain without storing the keys
SkipMessageKeys_unstored(s, until) ==
    IF s.CKr = None \/ until <= s.Nr THEN s
    ELSE [s EXCEPT !.CKr = Some([root |-> s.CKr[1].root, n |-> until]), !.Nr = until]

\* decrypt step 3: store the keys of the receiving chain up to `until`
SkipMessageKeys(s, until) ==
    IF s.CKr = None \/ until <= s.Nr THEN s
    ELSE [s EXCEPT
            !.MKSKIPPED = @ \cup {[dh |-> s.DHr[1], n |-> i,
                                   mk |-> [root |-> s.CKr[1].root, n |-> i]] :
                                  i \in s.Nr..(until - 1)},
            !.CKr = Some([root |-> s.CKr[1].root, n |-> until]),
            !.Nr = until]

\* decrypt step 2: the DH-ratchet step on a new peer ratchet key
DHRatchet(s, header, fresh) ==
    LET r1 == KDF_RK(s.RK, DH(s.DHs, header.dh))
        r2 == KDF_RK(r1.rk, DH(fresh, header.dh))
    IN [s EXCEPT !.PN = s.Ns, !.Ns = 0, !.Nr = 0, !.DHr = Some(header.dh),
                 !.CKr = Some(r1.ck), !.DHs = fresh, !.RK = r2.rk,
                 !.CKs = Some(r2.ck)]

Session_decrypt_failed(s) == [ok |-> FALSE, session |-> s, plaintext |-> None]

\* decrypt: a cached skipped key, or ratchet, skip and advance; the state
\* is replaced only when the message authenticates (step 5)
Session_decrypt(s, message, fresh) ==
    LET header == message.header
        hit == {e \in s.MKSKIPPED : e.dh = header.dh /\ e.n = header.n}
    IN IF hit # {}
       THEN LET e == CHOOSE x \in hit : TRUE
            IN IF AEAD_open(e.mk, header, message.ct)
               THEN [ok |-> TRUE,
                     session |-> [s EXCEPT !.MKSKIPPED = @ \ {e}, !.received = TRUE],
                     plaintext |-> Some(message.ct.pt)]
               ELSE Session_decrypt_failed(s)
       ELSE LET ratchet == Some(header.dh) # s.DHr
                s1 == IF ratchet THEN DHRatchet(SkipMessageKeys(s, header.pn), header, fresh)
                      ELSE s
                s2 == SkipMessageKeys(s1, header.n)
                step == KDF_CK(s2.CKr[1])
                s3 == [s2 EXCEPT !.CKr = Some(step.ck), !.Nr = @ + 1, !.received = TRUE]
            IN IF (ratchet /\ SkipExceeds(s, header.pn)) \/ SkipExceeds(s1, header.n)
               THEN Session_decrypt_failed(s)
               ELSE IF AEAD_open(step.mk, header, message.ct)
                    THEN [ok |-> TRUE, session |-> s3, plaintext |-> Some(message.ct.pt)]
                    ELSE Session_decrypt_failed(s)

(***************************************************************************)
(* RatchetSession and OlmAccount (ratchet.rs).                             *)
(***************************************************************************)
\* an encoding of the identity key in upper-case hex digits
HexOf_upper(identity) ==
    <<"01", "02", "03", "04", "05", "06", "07", "08", "09", "0A", "0B", "0C", "0D", "0E",
      "0F">>[identity]

\* hex::encode(their_identity_key.to_bytes()): the peer id of an identity key
HexOf(identity) ==
    <<"01", "02", "03", "04", "05", "06", "07", "08", "09", "0a", "0b", "0c", "0d", "0e",
      "0f">>[identity]

\* RatchetSession::new
RatchetSession_new(session, peer_id) ==
    [inner |-> session, peer_id |-> peer_id, messages_sent |-> 0, messages_received |-> 0]

\* RatchetSession::encrypt that increments the counter but keeps the old ratchet state
RatchetSession_encrypt_stale(rs, pt) ==
    LET r == Session_encrypt(rs.inner, pt)
    IN [session |-> [rs EXCEPT !.messages_sent = @ + 1], message |-> r.message]

\* RatchetSession::encrypt
RatchetSession_encrypt(rs, pt) ==
    LET r == Session_encrypt(rs.inner, pt)
    IN [session |-> [rs EXCEPT !.messages_sent = @ + 1, !.inner = r.session],
        message |-> r.message]

\* RatchetSession::decrypt
RatchetSession_decrypt(rs, message, fresh) ==
    LET r == Session_decrypt(rs.inner, message, fresh)
    IN IF ~r.ok
       THEN [ok |-> FALSE, session |-> rs, plaintext |-> None]
       ELSE [ok |-> TRUE,
             session |-> [rs EXCEPT !.inner = r.session, !.messages_received = @ + 1],
             plaintext |-> r.plaintext]

\* RatchetSession::pickle: the PickledSession struct, serialised field by field
RatchetSession_pickle(rs, pickle_key) ==
    <<rs.inner, rs.peer_id, rs.messages_sent, rs.messages_received>>

\* RatchetSession::unpickle that restores the inner session without its latch
RatchetSession_unpickle_unlatched(pickled, pickle_key) ==
    [inner |-> [pickled[1] EXCEPT !.received = FALSE], peer_id |-> pickled[2],
     messages_sent |-> pickled[3], messages_received |-> pickled[4]]

\* RatchetSession::unpickle that builds the session with RatchetSession::new
RatchetSession_unpickle_recounted(pickled, pickle_key) ==
    RatchetSession_new(pickled[1], pickled[2])

\* RatchetSession::unpickle
RatchetSession_unpickle(pickled, pickle_key) ==
    [inner |-> pickled[1], peer_id |-> pickled[2],
     messages_sent |-> pickled[3], messages_received |-> pickled[4]]

\* OlmAccount::create_outbound_session
create_outbound_session(account, their_identity_key, their_one_time_key, base_key, ratchet_key) ==
    RatchetSession_new(
        Session_outbound(account.identity, their_identity_key, their_one_time_key,
                         base_key, ratchet_key),
        HexOf(their_identity_key))

\* OlmAccount::create_inbound_session that leaves the one-time key in the account
create_inbound_session_keep(account, their_identity_key, message, fresh) ==
    LET failed == [ok |-> FALSE, account |-> account, session |-> None, plaintext |-> None]
    IN IF message.type # "PreKey" THEN failed
       ELSE IF message.session_keys[1].otk \notin account.one_time_keys THEN failed
       ELSE LET r == Session_decrypt(
                        Session_inbound(account.identity, their_identity_key,
                                        message.session_keys[1]),
                        message, fresh)
            IN IF ~r.ok THEN failed
               ELSE [ok |-> TRUE,
                     account |-> account,
                     session |-> Some(RatchetSession_new(r.session, HexOf(their_identity_key))),
                     plaintext |-> r.plaintext]

\* OlmAccount::create_inbound_session: only a PreKey message whose one-time key
\* the account still holds creates a session; the key is removed on success
create_inbound_session(account, their_identity_key, message, fresh) ==
    LET failed == [ok |-> FALSE, account |-> account, session |-> None, plaintext |-> None]
    IN IF message.type # "PreKey" THEN failed
       ELSE IF message.session_keys[1].otk \notin account.one_time_keys THEN failed
       ELSE LET r == Session_decrypt(
                        Session_inbound(account.identity, their_identity_key,
                                        message.session_keys[1]),
                        message, fresh)
            IN IF ~r.ok THEN failed
               ELSE [ok |-> TRUE,
                     account |-> [account EXCEPT
                                    !.one_time_keys = @ \ {message.session_keys[1].otk},
                                    !.unpublished = @ \ {message.session_keys[1].otk}],
                     session |-> Some(RatchetSession_new(r.session, HexOf(their_identity_key))),
                     plaintext |-> r.plaintext]

(***************************************************************************)
(* Two parties and a network (test_session_creation_and_encryption):       *)
(* Alice holds an outbound session to Bob, Bob creates his inbound session *)
(* from the first PreKey message that reaches him.  The network delivers   *)
(* in any order, may deliver again, and may alter a ciphertext.            *)
(***************************************************************************)
\* the key identifiers the accounts start with
KeyIds == [alice |-> 1, bob |-> 2, bob_otk |-> 3, base |-> 4, ratchet |-> 5, fresh |-> 6,
           alice_otk |-> 10, carol |-> 11, carol_otk |-> 12, carol_base |-> 13,
           carol_ratchet |-> 14, alice_again |-> 15]

Plaintexts == 1..MaxPlain

\* what x3dh leaves alone in every state of the ratchet specifications
XIdle ==
    /\ xkeys = [ikA |-> 1, ikB |-> 2, spkB |-> 1, otkB |-> None, otkId |-> 1]
    /\ bundle = BundleOf(xkeys)
    /\ xinit = NoInit
    /\ xresp = NoResp
    /\ ephDrawn = 0

RInit ==
    /\ KIdle
    /\ PIdle
    /\ XIdle
    /\ SIdle
    /\ TIdle
    /\ acct = [alice |-> [identity |-> KeyIds.alice, one_time_keys |-> {}, unpublished |-> {}],
               bob |-> [identity |-> KeyIds.bob, one_time_keys |-> {KeyIds.bob_otk}, unpublished |-> {}]]
    /\ sess = [alice |-> Some(create_outbound_session(
                                  [identity |-> KeyIds.alice, one_time_keys |-> {}, unpublished |-> {}],
                                  KeyIds.bob, KeyIds.bob_otk, KeyIds.base, KeyIds.ratchet)),
               bob |-> None]
    /\ rnet = {}
    /\ delivered = {}
    /\ sentCount = [p \in Parties |-> 0]
    /\ gotReply = [p \in Parties |-> FALSE]
    /\ restored = [p \in Parties |-> FALSE]
    /\ nextKey = KeyIds.fresh
    /\ last = NoLast

\* party p encrypts pt on its session and hands the message to the network
RSend(p, pt) ==
    /\ sess[p] # None
    /\ sentCount[p] < MaxSend
    /\ sentCount[p] + sentCount[Other(p)] < MaxTotal
    /\ LET r == RatchetSession_encrypt(sess[p][1], pt)
           id == [from |-> p, seq |-> sentCount[p] + 1]
       IN /\ sess' = [sess EXCEPT ![p] = Some(r.session)]
          /\ rnet' = rnet \cup {[id |-> id, pt |-> pt, afterReply |-> gotReply[p],
                                 restored |-> restored[p], msg |-> r.message]}
          /\ last' = [NoLast EXCEPT !.op = "encrypt", !.party = p, !.ok = TRUE, !.id = id]
    /\ sentCount' = [sentCount EXCEPT ![p] = @ + 1]
    /\ UNCHANGED <<acct, delivered, gotReply, restored, nextKey>>
    /\ UNCHANGED xvars
    /\ UNCHANGED pvars
    /\ UNCHANGED kvars
    /\ UNCHANGED svars
    /\ UNCHANGED tvars

\* the cached key, if any, that message msg would be decrypted with
SkippedHit(rs, msg) ==
    \E e \in rs.inner.MKSKIPPED : e.dh = msg.header.dh /\ e.n = msg.header.n

\* party q receives msg (sent as m): it decrypts on its session, or creates the
\* inbound session from it when it has none
Receive(q, m, msg, altered) ==
    IF sess[q] = None
    THEN LET r == create_inbound_session(acct[q], acct[Other(q)].identity, msg, nextKey)
         IN /\ acct' = [acct EXCEPT ![q] = r.account]
            /\ sess' = [sess EXCEPT ![q] = r.session]
            /\ nextKey' = IF r.ok THEN nextKey + 1 ELSE nextKey
            /\ gotReply' = [gotReply EXCEPT ![q] = @ \/ r.ok]
            /\ delivered' = IF r.ok THEN delivered \cup {m.id} ELSE delivered
            /\ last' = [op |-> "create_inbound", party |-> q, ok |-> r.ok,
                        plaintext |-> r.plaintext, id |-> m.id,
                        first |-> m.id \notin delivered, altered |-> altered,
                        skipped |-> FALSE, before |-> None, produced |-> None]
    ELSE LET r == RatchetSession_decrypt(sess[q][1], msg, nextKey)
         IN /\ sess' = [sess EXCEPT ![q] = Some(r.session)]
            /\ nextKey' = IF r.session.inner.DHs # sess[q][1].inner.DHs
                          THEN nextKey + 1 ELSE nextKey
            /\ gotReply' = [gotReply EXCEPT ![q] = @ \/ r.ok]
            /\ delivered' = IF r.ok THEN delivered \cup {m.id} ELSE delivered
            /\ last' = [op |-> "decrypt", party |-> q, ok |-> r.ok,
                        plaintext |-> r.plaintext, id |-> m.id,
                        first |-> m.id \notin delivered, altered |-> altered,
                        skipped |-> SkippedHit(sess[q][1], msg),
                        before |-> None, produced |-> None]
            /\ UNCHANGED acct

\* the network delivers a message as it was sent
RDeliver(m) ==
    /\ m \in rnet
    /\ Receive(Other(m.id.from), m, m.msg, FALSE)
    /\ UNCHANGED <<rnet, sentCount, restored>>
    /\ UNCHANGED xvars
    /\ UNCHANGED pvars
    /\ UNCHANGED kvars
    /\ UNCHANGED svars
    /\ UNCHANGED tvars

\* a ciphertext whose authentication tag matches no key
Altered(msg) == [msg EXCEPT !.ct.mk = [root |-> <<>>, n |-> 0]]

\* the network delivers a message with its ciphertext altered
RDeliverAltered(m) ==
    /\ m \in rnet
    /\ Receive(Other(m.id.from), m, Altered(m.msg), TRUE)
    /\ UNCHANGED <<rnet, sentCount, restored>>
    /\ UNCHANGED xvars
    /\ UNCHANGED pvars
    /\ UNCHANGED kvars
    /\ UNCHANGED svars
    /\ UNCHANGED tvars

\* party p pickles its session and continues with the unpickled copy
RPickleUnpickle(p) ==
    /\ sess[p] # None
    /\ sess' = [sess EXCEPT ![p] = Some(RatchetSession_unpickle(RatchetSession_pickle(sess[p][1], pickleKey),
                                                         pickleKey))]
    /\ restored' = [restored EXCEPT ![p] = TRUE]
    /\ last' = [NoLast EXCEPT !.op = "pickle", !.party = p, !.ok = TRUE]
    /\ UNCHANGED <<acct, rnet, delivered, sentCount, gotReply, nextKey>>
    /\ UNCHANGED xvars
    /\ UNCHANGED pvars
    /\ UNCHANGED kvars
    /\ UNCHANGED svars
    /\ UNCHANGED tvars

RNext ==
    \/ \E p \in Parties, pt \in Plaintexts : RSend(p, pt)
    \/ \E m \in rnet : RDeliver(m)
    \/ \E m \in rnet : RDeliverAltered(m)
    \/ \E p \in Parties : RPickleUnpickle(p)

SpecRatchet == RInit /\ [][RNext]_vars

\* the message with a given id
MessageOf(id) == CHOOSE m \in rnet : m.id = id

\* the last operation was a receive of a message
LastReceive == last.op \in {"decrypt", "create_inbound"}

\* C3: round trip. For any interleaving of sends and receives in both
\* directions, a message produced by encrypt(p) decrypts on the other side,
\* the first time it is delivered as sent, and decrypts to exactly p; no
\* receive ever returns anything but the plaintext that was encrypted.
C3_RoundTrip ==
    LastReceive =>
        /\ (last.first /\ ~last.altered) => last.ok
        /\ last.ok => last.plaintext = Some(MessageOf(last.id).pt)

\* Messages have gone both ways and Alice has just decrypted Bob's second one.
C3_Witness ==
    /\ last.op = "decrypt"
    /\ last.ok
    /\ last.party = "alice"
    /\ last.id.seq = 2
    /\ \E id \in delivered : id.from = "alice" /\ id.seq = 2
    /\ last.plaintext = Some(MaxPlain)

\* the messages of one sending chain: same sender, same ratchet key
ChainOf(m) == {x \in rnet : x.id.from = m.id.from /\ x.msg.header.dh = m.msg.header.dh}

\* C5: out-of-order delivery. Messages of one chain delivered in any order
\* each decrypt to their plaintext; a message that arrives after a later one
\* of its chain decrypts from the cached skipped key and the key is removed;
\* every cached key belongs to a sent message that has not arrived yet, so
\* the cache is empty once all messages have been delivered.
C5_OutOfOrder ==
    /\ \A q \in Parties : sess[q] # None =>
          \A e \in sess[q][1].inner.MKSKIPPED :
              \E m \in rnet : /\ m.id.from = Other(q)
                              /\ m.id \notin delivered
                              /\ m.msg.header.dh = e.dh
                              /\ m.msg.header.n = e.n
    /\ (/\ last.op = "decrypt"
        /\ last.first
        /\ ~last.altered
        /\ \E later \in ChainOf(MessageOf(last.id)) :
               later.id.seq > last.id.seq /\ later.id \in delivered) =>
          /\ last.skipped
          /\ last.ok
          /\ last.plaintext = Some(MessageOf(last.id).pt)
          /\ \A e \in sess[last.party][1].inner.MKSKIPPED :
                ~(e.dh = MessageOf(last.id).msg.header.dh
                  /\ e.n = MessageOf(last.id).msg.header.n)
    /\ (\A m \in rnet : m.id \in delivered) =>
          \A q \in Parties : sess[q] # None => sess[q][1].inner.MKSKIPPED = {}

\* A chain of MaxSend messages has arrived last to first; the cache is empty again.
C5_Witness ==
    /\ last.op = "decrypt"
    /\ last.skipped
    /\ last.ok
    /\ last.id.seq = 1
    /\ Cardinality(ChainOf(MessageOf(last.id))) = MaxSend
    /\ \A m \in ChainOf(MessageOf(last.id)) : m.id \in delivered
    /\ sess[last.party][1].inner.MKSKIPPED = {}

save_session_keep(table, session) ==
    IF table[session.peer_id] # None THEN table
    ELSE [table EXCEPT ![session.peer_id] = Some(RatchetSession_pickle(session, pickleKey))]

\* SessionStore::save_session: upsert under the session's own peer_id
save_session(table, session) ==
    [table EXCEPT ![session.peer_id] = Some(RatchetSession_pickle(session, pickleKey))]

\* SessionStore::load_session
load_session(table, peer_id) ==
    IF table[peer_id] = None THEN None
    ELSE Some(RatchetSession_unpickle(table[peer_id][1], pickleKey))

\* SessionStore::list_peers
list_peers(table) == {k \in DOMAIN table : table[k] # None}

\* SessionStore::delete_session
delete_session(table, peer_id) == [table EXCEPT ![peer_id] = None]

\* SessionStore::delete_all_sessions
delete_all_sessions(table) == [k \in DOMAIN table |-> None]

\* CryptoService::initialize: the cache is every stored session, by stored peer_id
CryptoService_initialize(table) ==
    [k \in DOMAIN table |-> IF k \in list_peers(table) THEN load_session(table, k) ELSE None]

\* CryptoService::encrypt that ignores the result of the vault write
CryptoService_encrypt_return_unchecked(saved, encrypted) == Some(encrypted)

\* CryptoService::encrypt, `save_session(session).await?; Ok(encrypted.to_bytes())`
CryptoService_encrypt_return(saved, encrypted) ==
    IF saved THEN Some(encrypted) ELSE None

\* CryptoService::decrypt, `save_session(session).await?; return Ok(plaintext)`
CryptoService_decrypt_return(saved, plaintext) ==
    IF saved THEN plaintext ELSE None

NoPending == [op |-> "none", peer_id |-> "", id |-> NoId, pt |-> 0, message |-> None,
              plaintext |-> None, before |-> None, session |-> None]

\* the service of Alice right after establish_outbound_session(peer_id, ...) with
\* Bob's identity key and one-time key: session saved, then cached under peer_id
SInit ==
    /\ pickleKey \in PickleKeys
    /\ KeyTableIdle
    /\ PIdle
    /\ XIdle
    /\ TIdle
    /\ acct = [alice |-> [identity |-> KeyIds.alice, one_time_keys |-> {}, unpublished |-> {}],
               bob |-> [identity |-> KeyIds.bob, one_time_keys |-> {KeyIds.bob_otk}, unpublished |-> {}]]
    /\ sess = [p \in Parties |-> None]
    /\ rnet = {}
    /\ delivered = {}
    /\ sentCount = [p \in Parties |-> 0]
    /\ gotReply = [p \in Parties |-> FALSE]
    /\ restored = [p \in Parties |-> FALSE]
    /\ nextKey = KeyIds.fresh
    /\ last = NoLast
    /\ pending = None
    /\ \E peer_id \in PeerIds :
          LET session == create_outbound_session(
                             [identity |-> KeyIds.alice, one_time_keys |-> {}, unpublished |-> {}],
                             KeyIds.bob, KeyIds.bob_otk, KeyIds.base, KeyIds.ratchet)
          IN /\ vault = save_session([k \in PeerIds |-> None], session)
             /\ sessions = [k \in PeerIds |-> IF k = peer_id THEN Some(session) ELSE None]

\* CryptoService::encrypt up to the vault write
SvcEncrypt(peer_id, pt) ==
    /\ pending = None
    /\ sentCount["alice"] < MaxSend
    /\ sentCount["alice"] + sentCount["bob"] < MaxTotal
    /\ IF sessions[peer_id] = None
       THEN /\ last' = [NoLast EXCEPT !.op = "svc_encrypt", !.party = peer_id]
            /\ UNCHANGED <<sessions, pending, sentCount>>
       ELSE LET r == RatchetSession_encrypt(sessions[peer_id][1], pt)
            IN /\ sessions' = [sessions EXCEPT ![peer_id] = Some(r.session)]
               /\ pending' = Some([NoPending EXCEPT
                                     !.op = "encrypt", !.peer_id = peer_id,
                                     !.id = [from |-> "alice", seq |-> sentCount["alice"] + 1],
                                     !.pt = pt, !.message = Some(r.message),
                                     !.before = sessions[peer_id]])
               /\ sentCount' = [sentCount EXCEPT !["alice"] = @ + 1]
               /\ last' = [NoLast EXCEPT !.op = "svc_suspended", !.party = peer_id]
    /\ UNCHANGED <<acct, sess, rnet, delivered, gotReply, restored, nextKey, vault>>
    /\ UNCHANGED xvars
    /\ UNCHANGED pvars
    /\ UNCHANGED kvars
    /\ UNCHANGED tvars

\* CryptoService::decrypt up to the vault write; without a cached session it
\* goes on to establish_inbound_session
SvcDecrypt(peer_id, their_identity_key, m, altered) ==
    /\ pending = None
    /\ m \in rnet
    /\ m.id.from = "bob"
    /\ nextKey < KeyIds.fresh + MaxFresh
    /\ LET msg == IF altered THEN Altered(m.msg) ELSE m.msg
           failed == [NoLast EXCEPT !.op = "svc_decrypt", !.party = peer_id, !.id = m.id,
                                    !.first = m.id \notin delivered, !.altered = altered,
                                    !.before = sessions[peer_id]]
       IN IF sessions[peer_id] # None
          THEN LET r == RatchetSession_decrypt(sessions[peer_id][1], msg, nextKey)
               IN IF ~r.ok
                  THEN /\ last' = failed
                       /\ UNCHANGED <<sessions, pending, nextKey, acct>>
                  ELSE /\ sessions' = [sessions EXCEPT ![peer_id] = Some(r.session)]
                       /\ pending' = Some([NoPending EXCEPT
                                             !.op = "decrypt", !.peer_id = peer_id,
                                             !.id = m.id, !.plaintext = r.plaintext,
                                             !.before = sessions[peer_id]])
                       /\ nextKey' = IF r.session.inner.DHs # sessions[peer_id][1].inner.DHs
                                     THEN nextKey + 1 ELSE nextKey
                       /\ last' = [NoLast EXCEPT !.op = "svc_suspended", !.party = peer_id]
                       /\ UNCHANGED acct
          ELSE IF their_identity_key = None
               THEN /\ last' = failed
                    /\ UNCHANGED <<sessions, pending, nextKey, acct>>
               ELSE LET r == create_inbound_session(acct["alice"], their_identity_key[1],
                                                    msg, nextKey)
                    IN IF ~r.ok
                       THEN /\ last' = failed
                            /\ UNCHANGED <<sessions, pending, nextKey, acct>>
                       ELSE /\ acct' = [acct EXCEPT !["alice"] = r.account]
                            /\ pending' = Some([NoPending EXCEPT
                                                  !.op = "establish", !.peer_id = peer_id,
                                                  !.id = m.id, !.plaintext = r.plaintext,
                                                  !.session = r.session])
                            /\ nextKey' = nextKey + 1
                            /\ last' = [NoLast EXCEPT !.op = "svc_suspended",
                                                      !.party = peer_id]
                            /\ UNCHANGED sessions
    /\ UNCHANGED <<sess, rnet, delivered, sentCount, gotReply, restored, vault>>
    /\ UNCHANGED xvars
    /\ UNCHANGED pvars
    /\ UNCHANGED kvars
    /\ UNCHANGED tvars

\* the vault write of the suspended call returns, and the call returns
SvcSaveReturns(saved) ==
    /\ pending # None
    /\ LET c == pending[1]
           session == IF c.op = "establish" THEN c.session[1] ELSE sessions[c.peer_id][1]
       IN /\ vault' = IF saved THEN save_session(vault, session) ELSE vault
          /\ sessions' = IF c.op = "establish" /\ saved
                         THEN [sessions EXCEPT ![c.peer_id] = Some(session)]
                         ELSE sessions
          /\ IF c.op = "encrypt"
             THEN LET out == CryptoService_encrypt_return(saved, c.message[1])
                  IN /\ rnet' = IF out = None THEN rnet
                                ELSE rnet \cup {[id |-> c.id, pt |-> c.pt, afterReply |-> FALSE,
                                                 restored |-> FALSE, msg |-> out[1]]}
                     /\ last' = [NoLast EXCEPT !.op = "svc_encrypt", !.party = c.peer_id,
                                               !.ok = out # None,
                                               !.id = IF out = None THEN NoId ELSE c.id,
                                               !.before = c.before, !.produced = c.message]
                     /\ UNCHANGED delivered
             ELSE LET out == CryptoService_decrypt_return(saved, c.plaintext)
                  IN /\ delivered' = IF out = None THEN delivered ELSE delivered \cup {c.id}
                     /\ last' = [NoLast EXCEPT !.op = "svc_decrypt", !.party = c.peer_id,
                                               !.ok = out # None, !.plaintext = out,
                                               !.id = c.id,
                                               !.first = c.id \notin delivered,
                                               !.before = c.before]
                     /\ UNCHANGED rnet
    /\ pending' = None
    /\ UNCHANGED <<acct, sess, sentCount, gotReply, restored, nextKey>>
    /\ UNCHANGED xvars
    /\ UNCHANGED pvars
    /\ UNCHANGED kvars
    /\ UNCHANGED tvars

\* the suspended call is cancelled at its vault write: the future is dropped,
\* with the row written or not, and nothing is returned
SvcCancel(written) ==
    /\ pending # None
    /\ LET c == pending[1]
           session == IF c.op = "establish" THEN c.session[1] ELSE sessions[c.peer_id][1]
       IN /\ vault' = IF written THEN save_session(vault, session) ELSE vault
          /\ last' = [NoLast EXCEPT !.op = "svc_cancelled", !.party = c.peer_id,
                                    !.before = c.before, !.produced = c.message]
    /\ pending' = None
    /\ UNCHANGED <<acct, sess, rnet, delivered, sentCount, gotReply, restored, nextKey,
                   sessions>>
    /\ UNCHANGED xvars
    /\ UNCHANGED pvars
    /\ UNCHANGED kvars
    /\ UNCHANGED tvars

\* the process ends and a new CryptoService::initialize loads the cache from the vault
SvcInitialize ==
    /\ \E pickle_key \in PickleKeys : pickleKey' = pickle_key
    /\ UNCHANGED <<cryptoKeys, klast, wire>>
    /\ sessions' = CryptoService_initialize(vault)
    /\ pending' = None
    /\ last' = [NoLast EXCEPT !.op = "svc_initialize"]
    /\ UNCHANGED <<acct, sess, rnet, delivered, sentCount, gotReply, restored, nextKey, vault>>
    /\ UNCHANGED xvars
    /\ UNCHANGED pvars
    /\ UNCHANGED tvars

\* CryptoService::delete_session: out of the cache, then out of the vault
SvcDeleteSession(peer_id, deleted) ==
    /\ pending = None
    /\ sessions' = [sessions EXCEPT ![peer_id] = None]
    /\ vault' = IF deleted THEN delete_session(vault, peer_id) ELSE vault
    /\ last' = [NoLast EXCEPT !.op = "svc_delete", !.party = peer_id, !.ok = deleted]
    /\ UNCHANGED <<acct, sess, rnet, delivered, sentCount, gotReply, restored, nextKey,
                   pending>>
    /\ UNCHANGED xvars
    /\ UNCHANGED pvars
    /\ UNCHANGED kvars
    /\ UNCHANGED tvars

\* Bob encrypts a reply on his session
PeerSend == RSend("bob", MaxPlain)

\* Bob receives a ciphertext the service returned to its caller
PeerReceive(m) ==
    /\ m.id.from = "alice"
    /\ nextKey < KeyIds.fresh + MaxFresh
    /\ RDeliver(m)

SNext ==
    \/ \E peer_id \in PeerIds, pt \in Plaintexts : SvcEncrypt(peer_id, pt)
    \/ \E peer_id \in PeerIds, k \in {None, Some(KeyIds.bob)}, m \in rnet, altered \in BOOLEAN :
          SvcDecrypt(peer_id, k, m, altered)
    \/ \E saved \in BOOLEAN : SvcSaveReturns(saved)
    \/ \E written \in BOOLEAN : SvcCancel(written)
    \/ SvcInitialize
    \/ \E peer_id \in PeerIds, deleted \in BOOLEAN : SvcDeleteSession(peer_id, deleted)
    \/ PeerSend
    \/ \E m \in rnet : PeerReceive(m)

SpecService == SInit /\ [][SNext]_vars

\* the ciphertexts CryptoService.encrypt has returned to its caller
Released == {m \in rnet : m.id.from = "alice"}

\* the sessions the vault would restore
Stored == {RatchetSession_unpickle(vault[k][1], pickleKey) : k \in list_peers(vault)}

\* the sessions in the cache
Cached == {sessions[k][1] : k \in {x \in PeerIds : sessions[x] # None}}

\* C4: a failed decrypt does not advance the session. When CryptoService.decrypt
\* on an existing session has returned an error for a message, the cached
\* session, its received counter included, is the one from before the call.
C4_FailedDecryptKeepsSession ==
    (pending = None /\ last.op = "svc_decrypt" /\ ~last.ok /\ last.before # None) =>
        sessions[last.party] = last.before

\* C4 for the errors of RatchetSession.decrypt alone: a message that does not
\* authenticate leaves the cached session as it was.
C4_RejectedMessageKeepsSession ==
    (pending = None /\ last.op = "svc_decrypt" /\ ~last.ok /\ last.altered
       /\ last.before # None) =>
        sessions[last.party] = last.before

\* C7: message keys are never reused. No two ciphertexts the service has
\* returned were sealed under the same message key, that is, the same root key
\* and sending chain key; and neither the cached session nor the session the
\* vault would restore has a returned ciphertext's chain key as its sending
\* chain key, so that the next encrypt, also after a restore, derives another.
C7_NoKeyReuse ==
    /\ \A m1, m2 \in Released : m1.id # m2.id => m1.msg.ct.mk # m2.msg.ct.mk
    /\ \A m \in Released, s \in Cached \cup Stored : s.inner.CKs # Some(m.msg.ct.mk)

\* The second ciphertext was produced but never returned, the service was
\* initialised again from the vault, and the third encrypt has now returned a
\* ciphertext from the chain position the second one had.
C7_Witness ==
    /\ last.op = "svc_encrypt"
    /\ last.ok
    /\ last.id.seq = MaxSend
    /\ MessageOf(last.id).msg.header.n = 1
    /\ \E m \in Released : /\ m.id.seq = 1
                            /\ m.msg.header.n = 0
                            /\ m.msg.header.dh = MessageOf(last.id).msg.header.dh

\* C9: ratchet state is durable before the ciphertext is released. When
\* CryptoService.encrypt has just returned a ciphertext, the vault holds the
\* session that results from that encrypt; when its vault write has just
\* failed, the ciphertext it produced has not been returned.
C9_DurableBeforeRelease ==
    /\ (pending = None /\ last.op = "svc_encrypt" /\ last.ok) =>
          /\ sessions[last.party] # None
          /\ vault[sessions[last.party][1].peer_id]
                 = Some(RatchetSession_pickle(sessions[last.party][1], pickleKey))
          /\ sessions[last.party][1].inner.CKs # last.before[1].inner.CKs
          /\ sessions[last.party][1].inner.CKs # Some(last.produced[1].ct.mk)
    /\ (last.op = "svc_encrypt" /\ ~last.ok /\ last.produced # None) =>
          \A m \in Released : m.msg # last.produced[1]

\* An encrypt whose vault write failed has returned an error, after another
\* encrypt had returned a ciphertext.
C9_Witness ==
    /\ last.op = "svc_encrypt"
    /\ ~last.ok
    /\ last.produced # None
    /\ Released # {}

\* C10: no partial advance. Once a CryptoService.encrypt or decrypt on a peer
\* has finished, with a result, an error or by cancellation, the cached session
\* of that peer is dropped, or is the one from before the call, or equals the
\* session stored in the vault.
C10_NoPartialAdvance ==
    (/\ pending = None
     /\ last.op \in {"svc_encrypt", "svc_decrypt", "svc_cancelled"}
     /\ sessions[last.party] # None
     /\ sessions[last.party] # last.before) =>
        vault[sessions[last.party][1].peer_id]
            = Some(RatchetSession_pickle(sessions[last.party][1], pickleKey))

(***************************************************************************)
(* CryptoService under concurrent callers.  The service is Alice's; she    *)
(* holds a session with Carol, and Bob, who holds an outbound session to   *)
(* her, sends her first-contact messages.  A call is given first as the    *)
(* function it computes when it runs alone, then as the steps between its  *)
(* lock acquisitions and vault writes, which tasks interleave.             *)
(***************************************************************************)
\* the peer ids the callers pass: the identity keys of Bob and Carol in hex
TaskPeers == {HexOf(KeyIds.bob), HexOf(KeyIds.carol)}

\* the value of Ok(())
Unit == <<>>
Ok(value) == [ok |-> TRUE, error |-> "", value |-> Some(value)]
Err(error) == [ok |-> FALSE, error |-> error, value |-> None]

\* OlmAccount::pickle: the account pickle as JSON, whatever the key
OlmAccount_pickle(account, pickle_key) == <<account.identity, account.one_time_keys, account.unpublished>>

\* OlmAccount::from_pickle: the account of the JSON pickle, whatever the key
OlmAccount_from_pickle(pickled, pickle_key) ==
    [identity |-> pickled[1], one_time_keys |-> pickled[2], unpublished |-> pickled[3]]

\* SessionStore::save_account
save_account(account) == Some(OlmAccount_pickle(account, pickleKey))

\* SessionStore::load_account
load_account(row) ==
    IF row = None THEN None ELSE Some(OlmAccount_from_pickle(row[1], pickleKey))

\* CryptoService::encrypt that drops the peer's stored session when the cache has none
CryptoService_encrypt_dropping(svc, peer_id, pt, io) ==
    IF svc.sessions[peer_id] = None
    THEN [svc |-> [svc EXCEPT !.vault = delete_session(svc.vault, peer_id)],
          result |-> Err("SessionNotFound")]
    ELSE LET r == RatchetSession_encrypt(svc.sessions[peer_id][1], pt)
             s1 == [svc EXCEPT !.sessions = [@ EXCEPT ![peer_id] = Some(r.session)]]
         IN IF ~io.session_saved
            THEN [svc |-> s1, result |-> Err("DatabaseError")]
            ELSE [svc |-> [s1 EXCEPT !.vault = save_session(@, r.session)],
                  result |-> Ok(r.message)]

\* CryptoService::encrypt, run alone
CryptoService_encrypt(svc, peer_id, pt, io) ==
    IF svc.sessions[peer_id] = None
    THEN [svc |-> svc, result |-> Err("SessionNotFound")]
    ELSE LET r == RatchetSession_encrypt(svc.sessions[peer_id][1], pt)
             s1 == [svc EXCEPT !.sessions = [@ EXCEPT ![peer_id] = Some(r.session)]]
         IN IF ~io.session_saved
            THEN [svc |-> s1, result |-> Err("DatabaseError")]
            ELSE [svc |-> [s1 EXCEPT !.vault = save_session(@, r.session)],
                  result |-> Ok(r.message)]

\* establish_inbound_session that stores the new session but leaves it out of the cache
establish_inbound_session_uncached(svc, peer_id, their_identity_key, message, fresh, io) ==
    LET r == create_inbound_session(svc.account, their_identity_key, message, fresh)
        s1 == [svc EXCEPT !.account = r.account]
        s2 == [s1 EXCEPT !.vault_account = save_account(r.account)]
        s3 == [s2 EXCEPT !.vault = save_session(@, r.session[1])]
    IN IF ~r.ok THEN [svc |-> svc, result |-> Err("X3dhError")]
       ELSE IF ~io.account_saved THEN [svc |-> s1, result |-> Err("DatabaseError")]
       ELSE IF ~io.session_saved THEN [svc |-> s2, result |-> Err("DatabaseError")]
       ELSE [svc |-> s3, result |-> Ok(r.plaintext[1])]

\* CryptoService::establish_inbound_session, run alone
establish_inbound_session(svc, peer_id, their_identity_key, message, fresh, io) ==
    LET r == create_inbound_session(svc.account, their_identity_key, message, fresh)
        s1 == [svc EXCEPT !.account = r.account]
        s2 == [s1 EXCEPT !.vault_account = save_account(r.account)]
        s3 == [s2 EXCEPT !.vault = save_session(@, r.session[1])]
    IN IF ~r.ok THEN [svc |-> svc, result |-> Err("X3dhError")]
       ELSE IF ~io.account_saved THEN [svc |-> s1, result |-> Err("DatabaseError")]
       ELSE IF ~io.session_saved THEN [svc |-> s2, result |-> Err("DatabaseError")]
       ELSE [svc |-> [s3 EXCEPT !.sessions = [@ EXCEPT ![peer_id] = r.session]],
             result |-> Ok(r.plaintext[1])]

\* CryptoService::decrypt, run alone
CryptoService_decrypt(svc, peer_id, their_identity_key, message, fresh, io) ==
    IF svc.sessions[peer_id] # None
    THEN LET r == RatchetSession_decrypt(svc.sessions[peer_id][1], message, fresh)
             s1 == [svc EXCEPT !.sessions = [@ EXCEPT ![peer_id] = Some(r.session)]]
         IN IF ~r.ok THEN [svc |-> svc, result |-> Err("DecryptionFailed")]
            ELSE IF ~io.session_saved THEN [svc |-> s1, result |-> Err("DatabaseError")]
            ELSE [svc |-> [s1 EXCEPT !.vault = save_session(@, r.session)],
                  result |-> Ok(r.plaintext[1])]
    ELSE IF their_identity_key = None
         THEN [svc |-> svc, result |-> Err("SessionNotFound")]
         ELSE establish_inbound_session(svc, peer_id, their_identity_key[1], message,
                                        fresh, io)

\* Alice's account and her session with Carol, as establish_outbound_session left them
TaskAccount == [identity |-> KeyIds.alice, one_time_keys |-> {KeyIds.alice_otk}, unpublished |-> {}]

CarolSession ==
    create_outbound_session(TaskAccount, KeyIds.carol, KeyIds.carol_otk,
                            KeyIds.carol_base, KeyIds.carol_ratchet)

\* the peer_sessions table before any save_session: no rows
NoRows == [k \in TaskPeers |-> None]

\* the session cache before any call: the outbound session with Carol
InitSessions ==
    [k \in TaskPeers |-> IF k = HexOf(KeyIds.carol) THEN Some(CarolSession) ELSE None]

\* the service before any call
InitSvc ==
    [account |-> TaskAccount,
     sessions |-> InitSessions,
     vault |-> save_session(NoRows, CarolSession),
     vault_account |-> save_account(TaskAccount)]

\* the service as the variables hold it
TSvc ==
    [account |-> acct["alice"], sessions |-> sessions, vault |-> vault,
     vault_account |-> vaultAccount]

TInit ==
    /\ KIdle
    /\ PIdle
    /\ XIdle
    /\ acct = [alice |-> InitSvc.account,
               bob |-> [identity |-> KeyIds.bob, one_time_keys |-> {}, unpublished |-> {}]]
    /\ sess = [alice |-> None,
               bob |-> Some(create_outbound_session(
                                [identity |-> KeyIds.bob, one_time_keys |-> {}, unpublished |-> {}],
                                KeyIds.alice, KeyIds.alice_otk, KeyIds.base, KeyIds.ratchet))]
    /\ rnet = {}
    /\ delivered = {}
    /\ sentCount = [p \in Parties |-> 0]
    /\ gotReply = [p \in Parties |-> FALSE]
    /\ restored = [p \in Parties |-> FALSE]
    /\ nextKey = KeyIds.fresh
    /\ last = NoLast
    /\ sessions = InitSvc.sessions
    /\ vault = InitSvc.vault
    /\ pending = None
    /\ tasks = [t \in Tasks |-> NoTask]
    /\ locks = NoLocks
    /\ vaultAccount = InitSvc.vault_account

\* establish_inbound_session that writes the session before the account
NextStep_session_first(pc) ==
    IF pc = "establish" THEN "save_new_session"
    ELSE IF pc = "save_new_session" THEN "save_account"
    ELSE "insert"

\* establish_inbound_session: the statement that follows pc, the account write
\* before the session write before the cache insert
NextStep(pc) ==
    IF pc = "establish" THEN "save_account"
    ELSE IF pc = "save_account" THEN "save_new_session"
    ELSE "insert"

\* the tasks whose call has returned
Done == {t \in Tasks : tasks[t].pc = "done"}

\* task t's call returns result
Return(t, result) == [tasks[t] EXCEPT !.pc = "done", !.result = result]

\* a caller starts CryptoService::encrypt
TaskCallEncrypt(t, peer_id, pt) ==
    /\ tasks[t].pc = "idle"
    /\ tasks' = [tasks EXCEPT ![t] = [NoTask EXCEPT !.pc = "start", !.op = "encrypt",
                                                    !.peer_id = peer_id, !.pt = pt,
                                                    !.after = Done]]
    /\ UNCHANGED <<locks, vaultAccount, sessions, vault, pending>>
    /\ UNCHANGED rvars
    /\ UNCHANGED xvars
    /\ UNCHANGED pvars
    /\ UNCHANGED kvars

\* a caller starts CryptoService::decrypt on a message of Bob
TaskCallDecrypt(t, peer_id, their_identity_key, m) ==
    /\ tasks[t].pc = "idle"
    /\ m \in rnet
    /\ tasks' = [tasks EXCEPT ![t] = [NoTask EXCEPT !.pc = "start", !.op = "decrypt",
                                                    !.peer_id = peer_id,
                                                    !.ik = their_identity_key,
                                                    !.msgid = m.id, !.after = Done]]
    /\ UNCHANGED <<locks, vaultAccount, sessions, vault, pending>>
    /\ UNCHANGED rvars
    /\ UNCHANGED xvars
    /\ UNCHANGED pvars
    /\ UNCHANGED kvars

\* `self.sessions.write().await` is granted: the call works on the cached
\* session up to its vault write, or finds none
TaskLockSessions(t) ==
    /\ tasks[t].pc = "start"
    /\ locks.sessions = 0
    /\ locks.sessions_readers = {}
    /\ LET c == tasks[t]
           cached == sessions[c.peer_id]
       IN IF c.op = "encrypt"
          THEN IF cached = None
               THEN /\ tasks' = [tasks EXCEPT ![t] = Return(t, Err("SessionNotFound"))]
                    /\ UNCHANGED <<sessions, locks, nextKey>>
               ELSE LET r == RatchetSession_encrypt(cached[1], c.pt)
                    IN /\ sessions' = [sessions EXCEPT ![c.peer_id] = Some(r.session)]
                       /\ tasks' = [tasks EXCEPT ![t] = [c EXCEPT !.pc = "save_session",
                                                                  !.message = Some(r.message)]]
                       /\ locks' = [locks EXCEPT !.sessions = t]
                       /\ UNCHANGED nextKey
          ELSE IF cached # None
               THEN LET r == RatchetSession_decrypt(cached[1], MessageOf(c.msgid).msg, nextKey)
                    IN IF ~r.ok
                       THEN /\ tasks' = [tasks EXCEPT ![t] =
                                            [Return(t, Err("DecryptionFailed"))
                                                EXCEPT !.fresh = nextKey]]
                            /\ UNCHANGED <<sessions, locks, nextKey>>
                       ELSE /\ sessions' = [sessions EXCEPT ![c.peer_id] = Some(r.session)]
                            /\ tasks' = [tasks EXCEPT ![t] =
                                            [c EXCEPT !.pc = "save_session",
                                                      !.plaintext = r.plaintext,
                                                      !.fresh = nextKey]]
                            /\ locks' = [locks EXCEPT !.sessions = t]
                            /\ nextKey' = nextKey + 1
               ELSE /\ tasks' = [tasks EXCEPT ![t] =
                                    IF c.ik = None THEN Return(t, Err("SessionNotFound"))
                                    ELSE [c EXCEPT !.pc = "establish"]]
                    /\ UNCHANGED <<sessions, locks, nextKey>>
    /\ UNCHANGED <<acct, sess, rnet, delivered, sentCount, gotReply, restored, last>>
    /\ UNCHANGED <<vault, pending, vaultAccount>>
    /\ UNCHANGED xvars
    /\ UNCHANGED pvars
    /\ UNCHANGED kvars

\* establish_outbound_session and establish_inbound_session:
\* `self.account.write().await` is granted and the session is created
TaskLockAccount(t) ==
    /\ tasks[t].pc = "establish"
    /\ locks.account = 0
    /\ locks.account_readers = {}
    /\ LET c == tasks[t]
           r == create_inbound_session(acct["alice"], c.ik[1], MessageOf(c.msgid).msg, nextKey)
       IN IF c.op = "establish_outbound"
          THEN /\ tasks' = [tasks EXCEPT ![t] =
                               [c EXCEPT !.pc = NextStep("establish"),
                                         !.session = Some(create_outbound_session(
                                                              acct["alice"], c.ik[1], c.otk,
                                                              nextKey, nextKey + 1)),
                                         !.fresh = nextKey]]
               /\ locks' = [locks EXCEPT !.account = t]
               /\ nextKey' = nextKey + 2
               /\ UNCHANGED acct
          ELSE IF ~r.ok
          THEN /\ tasks' = [tasks EXCEPT ![t] = [Return(t, Err("X3dhError"))
                                                   EXCEPT !.fresh = nextKey]]
               /\ UNCHANGED <<acct, locks, nextKey>>
          ELSE /\ acct' = [acct EXCEPT !["alice"] = r.account]
               /\ tasks' = [tasks EXCEPT ![t] = [c EXCEPT !.pc = NextStep("establish"),
                                                          !.session = r.session,
                                                          !.plaintext = r.plaintext,
                                                          !.fresh = nextKey]]
               /\ locks' = [locks EXCEPT !.account = t]
               /\ nextKey' = nextKey + 1
    /\ UNCHANGED <<sess, rnet, delivered, sentCount, gotReply, restored, last>>
    /\ UNCHANGED <<sessions, vault, pending, vaultAccount>>
    /\ UNCHANGED xvars
    /\ UNCHANGED pvars
    /\ UNCHANGED kvars

\* `self.store.save_account(&account).await?` returns, in
\* establish_outbound_session, establish_inbound_session and persist
TaskSaveAccount(t, saved) ==
    /\ tasks[t].pc \in {"save_account", "persist_account"}
    /\ LET c == [tasks[t] EXCEPT !.io.account_saved = IF saved THEN "ok" ELSE "failed"]
       IN IF saved
          THEN /\ vaultAccount' = save_account(acct["alice"])
               /\ tasks' = [tasks EXCEPT ![t] =
                               [c EXCEPT !.pc = IF c.pc = "persist_account" THEN "persist_lock"
                                                ELSE NextStep("save_account")]]
               /\ UNCHANGED locks
          ELSE /\ tasks' = [tasks EXCEPT ![t] =
                               [c EXCEPT !.pc = "done", !.result = Err("DatabaseError")]]
               /\ locks' = IF c.pc = "persist_account"
                           THEN [locks EXCEPT !.account_readers = @ \ {t}]
                           ELSE [locks EXCEPT !.account = 0]
               /\ UNCHANGED vaultAccount
    /\ UNCHANGED <<sessions, vault, pending>>
    /\ UNCHANGED rvars
    /\ UNCHANGED xvars
    /\ UNCHANGED pvars
    /\ UNCHANGED kvars

\* `self.store.save_session(..).await?` returns, in encrypt and decrypt on a
\* cached session and in establish_outbound_session and establish_inbound_session
TaskSaveSession(t, saved) ==
    /\ tasks[t].pc \in {"save_session", "save_new_session"}
    /\ LET c == [tasks[t] EXCEPT !.io.session_saved = IF saved THEN "ok" ELSE "failed"]
           failed == [c EXCEPT !.pc = "done", !.result = Err("DatabaseError")]
       IN IF c.pc = "save_session"
          THEN /\ vault' = IF saved THEN save_session(vault, sessions[c.peer_id][1]) ELSE vault
               /\ tasks' = [tasks EXCEPT ![t] =
                               IF ~saved THEN failed
                               ELSE [c EXCEPT !.pc = "done",
                                              !.result = IF c.op = "encrypt"
                                                         THEN Ok(c.message[1])
                                                         ELSE Ok(c.plaintext[1])]]
               /\ locks' = [locks EXCEPT !.sessions = 0]
          ELSE /\ vault' = IF saved THEN save_session(vault, c.session[1]) ELSE vault
               /\ tasks' = [tasks EXCEPT ![t] =
                               IF ~saved THEN failed
                               ELSE [c EXCEPT !.pc = NextStep("save_new_session")]]
               /\ locks' = IF saved THEN locks ELSE [locks EXCEPT !.account = 0]
    /\ UNCHANGED <<sessions, pending, vaultAccount>>
    /\ UNCHANGED rvars
    /\ UNCHANGED xvars
    /\ UNCHANGED pvars
    /\ UNCHANGED kvars

\* establish_outbound_session and establish_inbound_session:
\* `self.sessions.write().await` is granted, the new session goes into the cache
\* under the caller's peer_id and the call returns
TaskInsert(t) ==
    /\ tasks[t].pc = "insert"
    /\ locks.sessions = 0
    /\ locks.sessions_readers = {}
    /\ sessions' = [sessions EXCEPT ![tasks[t].peer_id] = tasks[t].session]
    /\ tasks' = [tasks EXCEPT ![t] =
                    Return(t, IF tasks[t].op = "establish_outbound" THEN Ok(Unit)
                              ELSE Ok(tasks[t].plaintext[1]))]
    /\ locks' = [locks EXCEPT !.account = 0]
    /\ UNCHANGED <<vault, pending, vaultAccount>>
    /\ UNCHANGED rvars
    /\ UNCHANGED xvars
    /\ UNCHANGED pvars
    /\ UNCHANGED kvars

\* a caller starts CryptoService::establish_outbound_session with Carol's keys
TaskCallEstablishOutbound(t, peer_id) ==
    /\ tasks[t].pc = "idle"
    /\ tasks' = [tasks EXCEPT ![t] = [NoTask EXCEPT !.pc = "establish",
                                                    !.op = "establish_outbound",
                                                    !.peer_id = peer_id,
                                                    !.ik = Some(KeyIds.carol),
                                                    !.otk = KeyIds.carol_otk,
                                                    !.after = Done]]
    /\ UNCHANGED <<locks, vaultAccount, sessions, vault, pending>>
    /\ UNCHANGED rvars
    /\ UNCHANGED xvars
    /\ UNCHANGED pvars
    /\ UNCHANGED kvars

\* a caller starts CryptoService::persist
TaskCallPersist(t) ==
    /\ tasks[t].pc = "idle"
    /\ tasks' = [tasks EXCEPT ![t] = [NoTask EXCEPT !.pc = "persist", !.op = "persist",
                                                    !.after = Done]]
    /\ UNCHANGED <<locks, vaultAccount, sessions, vault, pending>>
    /\ UNCHANGED rvars
    /\ UNCHANGED xvars
    /\ UNCHANGED pvars
    /\ UNCHANGED kvars

\* persist: `self.account.read().await` is granted
TaskReadAccount(t) ==
    /\ tasks[t].pc = "persist"
    /\ locks.account = 0
    /\ locks' = [locks EXCEPT !.account_readers = @ \cup {t}]
    /\ tasks' = [tasks EXCEPT ![t].pc = "persist_account"]
    /\ UNCHANGED <<vaultAccount, sessions, vault, pending>>
    /\ UNCHANGED rvars
    /\ UNCHANGED xvars
    /\ UNCHANGED pvars
    /\ UNCHANGED kvars

\* persist: `self.sessions.read().await` is granted; the loop over
\* sessions.values() has every cached session to save
TaskReadSessions(t) ==
    /\ tasks[t].pc = "persist_lock"
    /\ locks.sessions = 0
    /\ LET todo == {k \in DOMAIN sessions : sessions[k] # None}
       IN IF todo = {}
          THEN /\ tasks' = [tasks EXCEPT ![t] = Return(t, Ok(Unit))]
               /\ locks' = [locks EXCEPT !.account_readers = @ \ {t}]
          ELSE /\ tasks' = [tasks EXCEPT ![t].pc = "persist_sessions", ![t].todo = todo]
               /\ locks' = [locks EXCEPT !.sessions_readers = @ \cup {t}]
    /\ UNCHANGED <<vaultAccount, sessions, vault, pending>>
    /\ UNCHANGED rvars
    /\ UNCHANGED xvars
    /\ UNCHANGED pvars
    /\ UNCHANGED kvars

\* persist: `self.store.save_session(session).await?` returns for the next
\* session of the loop, the cache entry k in the map's iteration order
TaskPersistSession(t, k, saved) ==
    /\ tasks[t].pc = "persist_sessions"
    /\ k \in tasks[t].todo
    /\ LET c == [tasks[t] EXCEPT !.io.session_saved = IF saved THEN "ok" ELSE "failed",
                                 !.todo = @ \ {k}]
           returns == ~saved \/ c.todo = {}
       IN /\ vault' = IF saved THEN save_session(vault, sessions[k][1]) ELSE vault
          /\ tasks' = [tasks EXCEPT ![t] =
                          IF ~saved THEN [c EXCEPT !.pc = "done",
                                                   !.result = Err("DatabaseError")]
                          ELSE IF c.todo = {} THEN [c EXCEPT !.pc = "done", !.result = Ok(Unit)]
                          ELSE c]
          /\ locks' = IF returns
                      THEN [locks EXCEPT !.account_readers = @ \ {t},
                                         !.sessions_readers = @ \ {t}]
                      ELSE locks
    /\ UNCHANGED <<vaultAccount, sessions, pending>>
    /\ UNCHANGED rvars
    /\ UNCHANGED xvars
    /\ UNCHANGED pvars
    /\ UNCHANGED kvars

\* Bob encrypts a first-contact message for Alice
TaskPeerSend(pt) ==
    /\ sentCount["bob"] < MaxTasks
    /\ RSend("bob", pt)

TNext ==
    \/ \E t \in Tasks, peer_id \in TaskPeers, pt \in Plaintexts : TaskCallEncrypt(t, peer_id, pt)
    \/ \E t \in Tasks, peer_id \in TaskPeers, k \in {None, Some(KeyIds.bob)}, m \in rnet :
          TaskCallDecrypt(t, peer_id, k, m)
    \/ \E t \in Tasks, peer_id \in TaskPeers : TaskCallEstablishOutbound(t, peer_id)
    \/ \E t \in Tasks : TaskCallPersist(t)
    \/ \E t \in Tasks : TaskLockSessions(t)
    \/ \E t \in Tasks : TaskLockAccount(t)
    \/ \E t \in Tasks : TaskReadAccount(t)
    \/ \E t \in Tasks : TaskReadSessions(t)
    \/ \E t \in Tasks, k \in TaskPeers, saved \in BOOLEAN : TaskPersistSession(t, k, saved)
    \/ \E t \in Tasks, saved \in BOOLEAN : TaskSaveAccount(t, saved)
    \/ \E t \in Tasks, saved \in BOOLEAN : TaskSaveSession(t, saved)
    \/ \E t \in Tasks : TaskInsert(t)
    \/ \E pt \in Plaintexts : TaskPeerSend(pt)

SpecTasks == TInit /\ [][TNext]_vars

\* the outcomes a vault write may have for a call whose own write was not reached
IoChoices(c) ==
    {io \in [account_saved : BOOLEAN, session_saved : BOOLEAN] :
        /\ c.io.account_saved # "unused" => io.account_saved = (c.io.account_saved = "ok")
        /\ c.io.session_saved # "unused" => io.session_saved = (c.io.session_saved = "ok")}

\* call c run alone on svc
Apply(svc, c, io) ==
    IF c.op = "encrypt" THEN CryptoService_encrypt(svc, c.peer_id, c.pt, io)
    ELSE CryptoService_decrypt(svc, c.peer_id, c.ik, MessageOf(c.msgid).msg, c.fresh, io)

\* the orders of the returned calls in which a call that returned before
\* another started comes first
Orders ==
    {o \in [1..Cardinality(Done) -> Done] :
        /\ \A i, j \in DOMAIN o : i # j => o[i] # o[j]
        /\ \A i, j \in DOMAIN o : i < j => o[j] \notin tasks[o[i]].after}

\* the services and results the calls of order leave when run one after another
RECURSIVE Runs(_, _)
Runs(svc, order) ==
    IF order = <<>> THEN {[svc |-> svc, results |-> <<>>]}
    ELSE UNION {LET r == Apply(svc, tasks[Head(order)], io)
                IN {[svc |-> x.svc, results |-> <<r.result>> \o x.results] :
                        x \in Runs(r.svc, Tail(order))} :
                io \in IoChoices(tasks[Head(order)])}

\* no call is under way
Quiescent == \A t \in Tasks : tasks[t].pc \in {"idle", "done"}

\* every call made so far is an encrypt or a decrypt
OnlyMessages == \A t \in Tasks : tasks[t].op \in {"none", "encrypt", "decrypt"}

\* some sequential order of the returned calls explains their results and the service
Linearizable ==
    \E o \in Orders : \E x \in Runs(InitSvc, o) :
        /\ x.svc = TSvc
        /\ \A i \in DOMAIN o : x.results[i] = tasks[o[i]].result

\* C11: calls on one peer, first-contact decrypts included, leave the results
\* and the service that some one-at-a-time order of the same calls leaves
C11_SamePeerLinearizable ==
    (Quiescent /\ OnlyMessages /\ \A t, u \in Done : tasks[t].peer_id = tasks[u].peer_id)
        => Linearizable

\* calls that did not overlap agree with their one-at-a-time run
SequentialCallsAgree ==
    (Quiescent /\ OnlyMessages
        /\ \A t, u \in Done : t # u => (t \in tasks[u].after \/ u \in tasks[t].after))
        => Linearizable

\* task t is suspended on the vault write of encrypt or decrypt
SuspendedOnVault(t) == tasks[t].pc = "save_session"

\* task t can go on: it is not waiting for a lock another task holds
CanProgress(t) ==
    /\ tasks[t].pc \in {"start", "insert"}
          => locks.sessions = 0 /\ locks.sessions_readers = {}
    /\ tasks[t].pc = "establish" => locks.account = 0 /\ locks.account_readers = {}
    /\ tasks[t].pc = "persist" => locks.account = 0
    /\ tasks[t].pc = "persist_lock" => locks.sessions = 0

\* C12: while an encrypt or decrypt for one peer is suspended on its vault
\* write, an encrypt or decrypt for another peer can go on
C12_DifferentPeersConcurrent ==
    \A t, u \in Tasks :
        (SuspendedOnVault(t) /\ tasks[u].pc = "start" /\ tasks[u].peer_id # tasks[t].peer_id)
            => CanProgress(u)

\* task t's decrypt established an inbound session and returned its plaintext
Established(t) ==
    /\ tasks[t].pc = "done"
    /\ tasks[t].op = "decrypt"
    /\ tasks[t].result.ok
    /\ tasks[t].session # None

\* the one-time key the session task t derived was created with
OtkOf(t) == tasks[t].session[1].inner.session_keys.otk

\* the one-time keys of the stored account
StoredOtks == load_account(vaultAccount)[1].one_time_keys

CommittedOtks ==
    {sessions[p][1].inner.session_keys.otk : p \in {q \in TaskPeers : sessions[q] # None}}
        \cup {load_session(vault, p)[1].inner.session_keys.otk : p \in list_peers(vault)}

\* C14: a one-time key with which a session in the vault or the cache was
\* created is neither in the account nor in its stored copy, and a call whose
\* session write failed leaves its one-time key in neither
C14_OtkDeletedBeforeCommit ==
    /\ \A k \in CommittedOtks : k \notin acct["alice"].one_time_keys /\ k \notin StoredOtks
    /\ \A t \in Tasks :
          (tasks[t].pc = "done" /\ tasks[t].io.session_saved = "failed"
                /\ tasks[t].session # None)
             => OtkOf(t) \notin acct["alice"].one_time_keys \cup StoredOtks

\* the account write succeeded, the session write failed, and the call returned
C14_Witness ==
    \E t \in Tasks :
        /\ tasks[t].pc = "done"
        /\ tasks[t].io = [account_saved |-> "ok", session_saved |-> "failed"]
        /\ tasks[t].result.error = "DatabaseError"
        /\ KeyIds.alice_otk \notin acct["alice"].one_time_keys \cup StoredOtks
        /\ sessions[HexOf(KeyIds.bob)] = None

\* the sixteen lowercase hex digits
LowerHexDigits ==
    <<"0", "1", "2", "3", "4", "5", "6", "7", "8", "9", "a", "b", "c", "d", "e", "f">>

\* the two lowercase hex digits of a one-byte key
LowerHex(byte) == LowerHexDigits[(byte \div 16) + 1] \o LowerHexDigits[(byte % 16) + 1]

\* the identity key of the peer a session of Alice's was agreed with: the
\* identity other than hers that went into the handshake secret
PeerIdentity(rs) == CHOOSE i \in {KeyIds.bob, KeyIds.carol} : i \in rs.inner.RK[1]

\* C20: every row of the vault's session table is stored under the lowercase
\* hex encoding of the identity key of the peer its session was agreed with
C20_VaultKeyIsLowerHex ==
    \A k \in list_peers(vault) : k = LowerHex(PeerIdentity(load_session(vault, k)[1]))

\* persist wrote the cached sessions and returned, a decrypt had established
\* the inbound session with Bob, and the vault holds a row for Bob and for Carol
C20_Witness ==
    \E t, u \in Tasks :
        /\ tasks[t].pc = "done" /\ tasks[t].op = "persist"
        /\ tasks[t].result.ok /\ tasks[t].io.session_saved = "ok"
        /\ Established(u) /\ u \in tasks[t].after
        /\ list_peers(vault) = {"02", "0b"}

(***************************************************************************)
(* The prekey catalog (prekeys.rs).  Curve25519KeyPair::generate draws a   *)
(* key pair no earlier call drew: the n-th pair generated has secret n.    *)
(***************************************************************************)
\* the number of key pairs generate makes: no more than the group has secrets
MaxGenerated == IF MaxKeyPairs < Group.q THEN MaxKeyPairs ELSE Group.q - 1

\* PreKeyConfig (with_config)
Config ==
    [initial_batch_size |-> InitialBatch, replenishment_batch_size |-> ReplenishBatch,
     min_prekey_count |-> MinPrekeyCount, signed_prekey_max_age_days |-> MaxAgeDays]

\* PreKeyManager::generate_prekey_batch that numbers every batch from 0
generate_prekey_batch_from_zero(start_id, count, rng) ==
    [i \in 1..count |-> <<i - 1, Curve25519KeyPair(rng + i)>>]

\* PreKeyManager::generate_prekey_batch, rng key pairs generated before it
generate_prekey_batch(start_id, count, rng) ==
    [i \in 1..count |-> <<start_id + (i - 1), Curve25519KeyPair(rng + i)>>]

\* PreKeyManager::with_config
with_config(identity, config, rng, time) ==
    [identity |-> identity,
     signed_prekey |-> Curve25519KeyPair(rng + 1),
     signed_prekey_id |-> 0,
     signed_prekey_created |-> time,
     one_time_prekeys |-> generate_prekey_batch(0, config.initial_batch_size, rng + 1),
     next_prekey_id |-> config.initial_batch_size,
     config |-> config]

\* PreKeyConfig::default
PreKeyConfig_default ==
    [initial_batch_size |-> 100, replenishment_batch_size |-> 100,
     min_prekey_count |-> 25, signed_prekey_max_age_days |-> 7]

\* PreKeyManager::new
PreKeyManager_new(identity, rng, time) == with_config(identity, PreKeyConfig_default, rng, time)

\* PreKeyManager::get_signed_prekey, called at time
get_signed_prekey(m, time) ==
    SignedPreKey(m.signed_prekey_id, m.signed_prekey, m.identity, time)

\* PreKeyManager::get_one_time_prekeys
get_one_time_prekeys(m) ==
    [i \in DOMAIN m.one_time_prekeys |->
        OneTimePreKey(m.one_time_prekeys[i][1], m.one_time_prekeys[i][2])]

\* PreKeyManager::get_bundle: the first one-time prekey of the pool, if any
get_bundle(m, time) ==
    [identity_key |-> Ed25519Public(m.identity),
     signed_prekey |-> get_signed_prekey(m, time),
     one_time_prekey |-> IF m.one_time_prekeys = <<>> THEN None
                         ELSE Some(get_one_time_prekeys(m)[1])]

\* `iter().position(|(id, _)| *id == key_id)`: first index with that id, 0 for none
Position(pool, key_id) ==
    IF \E i \in DOMAIN pool : pool[i][1] = key_id
    THEN CHOOSE i \in DOMAIN pool :
            /\ pool[i][1] = key_id
            /\ \A j \in DOMAIN pool : pool[j][1] = key_id => i <= j
    ELSE 0

\* Vec::remove(idx)
Remove(pool, idx) == [i \in 1..(Len(pool) - 1) |-> IF i < idx THEN pool[i] ELSE pool[i + 1]]

\* PreKeyManager::consume_prekey that takes the key at the front of the pool
consume_prekey_front(m, key_id) ==
    LET idx == Position(m.one_time_prekeys, key_id)
    IN IF idx = 0 THEN [manager |-> m, result |-> None]
       ELSE [manager |-> [m EXCEPT !.one_time_prekeys = Remove(@, 1)],
             result |-> Some(m.one_time_prekeys[1][2])]

\* PreKeyManager::consume_prekey
consume_prekey(m, key_id) ==
    LET idx == Position(m.one_time_prekeys, key_id)
    IN IF idx = 0 THEN [manager |-> m, result |-> None]
       ELSE [manager |-> [m EXCEPT !.one_time_prekeys = Remove(@, idx)],
             result |-> Some(m.one_time_prekeys[idx][2])]

\* PreKeyManager::needs_replenishment that counts a pool at the mark as low
needs_replenishment_inclusive(m) == Len(m.one_time_prekeys) <= m.config.min_prekey_count

\* PreKeyManager::needs_replenishment
needs_replenishment(m) == Len(m.one_time_prekeys) < m.config.min_prekey_count

\* PreKeyManager::replenish that leaves next_prekey_id where it was
replenish_unadvanced(m, rng) ==
    LET new_keys == generate_prekey_batch(m.next_prekey_id,
                                          m.config.replenishment_batch_size, rng)
    IN [manager |-> [m EXCEPT !.one_time_prekeys = @ \o new_keys],
        result |-> [i \in DOMAIN new_keys |-> OneTimePreKey(new_keys[i][1], new_keys[i][2])]]

\* PreKeyManager::replenish
replenish(m, rng) ==
    LET new_keys == generate_prekey_batch(m.next_prekey_id,
                                          m.config.replenishment_batch_size, rng)
    IN [manager |-> [m EXCEPT !.next_prekey_id = @ + m.config.replenishment_batch_size,
                              !.one_time_prekeys = @ \o new_keys],
        result |-> [i \in DOMAIN new_keys |-> OneTimePreKey(new_keys[i][1], new_keys[i][2])]]

\* PreKeyManager::needs_signed_prekey_rotation
needs_signed_prekey_rotation(m, time) ==
    time - m.signed_prekey_created > m.config.signed_prekey_max_age_days

\* PreKeyManager::rotate_signed_prekey
rotate_signed_prekey(m, rng, time) ==
    LET rotated == [m EXCEPT !.signed_prekey = Curve25519KeyPair(rng + 1),
                             !.signed_prekey_id = @ + 1,
                             !.signed_prekey_created = time]
    IN [manager |-> rotated, result |-> get_signed_prekey(rotated, time)]

\* PreKeyManager::get_signed_prekey_pair
get_signed_prekey_pair(m) == m.signed_prekey

\* PreKeyManager::prekey_count
prekey_count(m) == Len(m.one_time_prekeys)

\* the identities of the catalog's owner and of the peer that contacts it
Owner == 2
Contact == 1

PInit ==
    /\ XIdle
    /\ RIdle
    /\ SIdle
    /\ TIdle
    /\ KIdle
    /\ manager = with_config(Owner, Config, 0, 0)
    /\ generated = InitialBatch + 1
    /\ now = 0
    /\ handshake = NoHandshake
    /\ plast = NoPLast

\* the catalog is the only thing a call on the manager changes
OnlyCatalog ==
    /\ UNCHANGED xvars
    /\ UNCHANGED rvars
    /\ UNCHANGED svars
    /\ UNCHANGED tvars
    /\ UNCHANGED kvars

\* what the last call was, with the manager it was made on
Called(op, key_id, result) ==
    [op |-> op, repeated |-> plast.op = op, before |-> manager, key_id |-> key_id,
     result |-> result]

\* the contact fetches the owner's bundle and builds its first message from it
PFetch(ek) ==
    /\ handshake.state = "none"
    /\ LET b == get_bundle(manager, now)
       IN handshake' = [NoHandshake EXCEPT !.state = "sent", !.bundle = Some(b),
                                           !.init = x3dh_initiate(Contact, b, ek)]
    /\ plast' = Called("get_bundle", 0, None)
    /\ UNCHANGED <<manager, generated, now>>
    /\ OnlyCatalog

\* rotate_signed_prekey
PRotate ==
    /\ generated < MaxGenerated
    /\ LET r == rotate_signed_prekey(manager, generated, now)
       IN /\ manager' = r.manager
          /\ plast' = Called("rotate_signed_prekey", 0, Some(r.result))
    /\ generated' = generated + 1
    /\ UNCHANGED <<now, handshake>>
    /\ OnlyCatalog

\* replenish
PReplenish ==
    /\ generated + manager.config.replenishment_batch_size <= MaxGenerated
    /\ LET r == replenish(manager, generated)
       IN /\ manager' = r.manager
          /\ plast' = Called("replenish", 0, Some(r.result))
    /\ generated' = generated + manager.config.replenishment_batch_size
    /\ UNCHANGED <<now, handshake>>
    /\ OnlyCatalog

\* consume_prekey
PConsume(key_id) ==
    /\ LET r == consume_prekey(manager, key_id)
       IN /\ manager' = r.manager
          /\ plast' = Called("consume_prekey", key_id, r.result)
    /\ UNCHANGED <<generated, now, handshake>>
    /\ OnlyCatalog

\* the owner answers the first contact with the key pairs its manager gives it:
\* the signed prekey pair of get_signed_prekey_pair, the one-time pair of consume_prekey
PRespond ==
    /\ handshake.state = "sent"
    /\ handshake.init.state = "ok"
    /\ LET used == handshake.init.used_one_time_prekey
           c == IF used = None THEN [manager |-> manager, result |-> None]
                ELSE consume_prekey(manager, used[1])
       IN /\ manager' = c.manager
          /\ handshake' = [handshake EXCEPT
                 !.state = "responded",
                 !.signed_prekey_id = manager.signed_prekey_id,
                 !.one_time_prekey = c.result,
                 !.shared_secret =
                     x3dh_respond(manager.identity, get_signed_prekey_pair(manager),
                                  c.result, Ed25519Public(Contact),
                                  handshake.init.ephemeral_public)]
          /\ plast' = Called("respond", 0, None)
    /\ UNCHANGED <<generated, now>>
    /\ OnlyCatalog

\* a day passes
PTick ==
    /\ now < MaxNow
    /\ now' = now + 1
    /\ UNCHANGED <<manager, generated, handshake, plast>>
    /\ OnlyCatalog

PNext ==
    \/ \E ek \in 1..MaxSecret : PFetch(ek)
    \/ PRotate
    \/ PReplenish
    \/ \E key_id \in 0..manager.next_prekey_id : PConsume(key_id)
    \/ PRespond
    \/ PTick

SpecPreKeys == PInit /\ [][PNext]_vars

\* the signed prekey generations whose key pair the manager can give, by id
Resolvable(m) == {<<m.signed_prekey_id, get_signed_prekey_pair(m).public>>}

\* the signed prekey record of the bundle the first contact was built from
FetchedSignedPreKey == handshake.bundle[1].signed_prekey

\* C15: the signed prekey generation before the current one is resolvable by
\* its id, so a first contact built from a bundle fetched before one rotation
\* gives the owner the contact's shared secret
C15_RotationPreservesInFlight ==
    /\ (handshake.state = "sent"
            /\ FetchedSignedPreKey.key_id + 1 = manager.signed_prekey_id)
        => <<FetchedSignedPreKey.key_id, FetchedSignedPreKey.public_key>>
               \in Resolvable(manager)
    /\ (handshake.state = "responded"
            /\ FetchedSignedPreKey.key_id + 1 = handshake.signed_prekey_id
            /\ (handshake.init.used_one_time_prekey = None
                    <=> handshake.one_time_prekey = None))
        => handshake.shared_secret = handshake.init.shared_secret

\* without a rotation in between the owner derives the contact's shared secret
RespondWithoutRotation ==
    (handshake.state = "responded"
        /\ FetchedSignedPreKey.key_id = handshake.signed_prekey_id
        /\ (handshake.init.used_one_time_prekey = None <=> handshake.one_time_prekey = None))
    => handshake.shared_secret = handshake.init.shared_secret

\* the catalog: signed prekey id, one-time prekey pool, next one-time prekey id
Catalog(m) == <<m.signed_prekey_id, m.one_time_prekeys, m.next_prekey_id>>

\* C16: rotate_signed_prekey called twice in a row, or replenish called twice
\* in a row, leaves the catalog as the first of the two calls left it
C16_RotateReplenishIdempotent ==
    (plast.op \in {"rotate_signed_prekey", "replenish"} /\ plast.repeated)
        => Catalog(manager) = Catalog(plast.before)

\* consume_prekey of an id consumed by the call before returns none and
\* leaves the pool as it was
ConsumeTwice ==
    (plast.op = "consume_prekey" /\ plast.repeated
        /\ Position(plast.before.one_time_prekeys, plast.key_id) = 0)
    => plast.result = None /\ manager = plast.before

(***************************************************************************)
(* Pickles and the pickle key (ratchet.rs, sessions.rs).                   *)
(***************************************************************************)
\* RatchetSession::unpickle returns Ok: serde_json::from_str finds the four
\* fields of PickledSession; the key plays no part
RatchetSession_unpickle_ok(pickled, pickle_key) == Len(pickled) = 4

\* OlmAccount::from_pickle returns Ok: serde_json::from_str finds an AccountPickle
OlmAccount_from_pickle_ok(pickled, pickle_key) == Len(pickled) = 3

\* a stored session blob with one of its values changed
TamperedSession(pickled) == [pickled EXCEPT ![3] = @ + 1]

\* a stored account blob with one of its values changed
TamperedAccount(pickled) == [pickled EXCEPT ![2] = {}]

\* derive_pickle_key: HKDF-SHA256 with the salt, the secret and a fixed info
derive_pickle_key(secret, salt) == <<"NoChat Pickle Key v1", salt, secret>>

\* the device secrets and salts derive_pickle_key is tried on
Secrets == 1..MaxPickleKey
Salts == 1..MaxPickleKey

\* the keys other than the one the running service writes the vault under
OtherKeys == PickleKeys \ {pickleKey}

\* C17: every blob in the vault is a ciphertext under the pickle key it was
\* written under: pickled under another key it would be another blob, loading
\* it under another key fails, and loading it after a change to it fails
C17_PicklesAreCiphertexts ==
    /\ \A p \in list_peers(vault) :
          /\ \A k \in OtherKeys :
                /\ RatchetSession_pickle(load_session(vault, p)[1], k) # vault[p][1]
                /\ ~RatchetSession_unpickle_ok(vault[p][1], k)
          /\ ~RatchetSession_unpickle_ok(TamperedSession(vault[p][1]), pickleKey)
    /\ vaultAccount # None =>
          /\ \A k \in OtherKeys :
                /\ OlmAccount_pickle(load_account(vaultAccount)[1], k) # vaultAccount[1]
                /\ ~OlmAccount_from_pickle_ok(vaultAccount[1], k)
          /\ ~OlmAccount_from_pickle_ok(TamperedAccount(vaultAccount[1]), pickleKey)

\* C18: an initialisation of the service over a written vault keeps the pickle
\* key of the run that wrote it, and derive_pickle_key gives one key for one
\* (secret, salt) and different keys for different salts
C18_PickleKeyStable ==
    [][/\ pickleKey' = pickleKey
       /\ \A secret \in Secrets, a, b \in Salts :
             /\ derive_pickle_key(secret, a) = derive_pickle_key(secret, a)
             /\ a # b => derive_pickle_key(secret, a) # derive_pickle_key(secret, b)]_vars

\* the session S after pickle and unpickle under key k
RoundTrip(S, k) == RatchetSession_unpickle(RatchetSession_pickle(S, k), k)

INITIAL_ONE_TIME_KEYS == 100

\* the key ids below those a new account generates
OtkBase == 100

\* no service: before the first initialize, and after one that returned Err
NoAccount == [identity |-> 0, one_time_keys |-> {}, unpublished |-> {}]

\* OlmAccount::new, with the identity key the random generator gives
OlmAccount_new(identity) == [identity |-> identity, one_time_keys |-> {}, unpublished |-> {}]

\* OlmAccount::generate_one_time_keys: count new keys, first the first of them
generate_one_time_keys(account, count, first) ==
    [account EXCEPT !.one_time_keys = @ \cup (first..(first + count - 1)),
                    !.unpublished = @ \cup (first..(first + count - 1))]

\* OlmAccount::one_time_keys: the keys not yet marked as published
one_time_keys(account) == account.unpublished

\* OlmAccount::mark_keys_as_published
mark_keys_as_published(account) == [account EXCEPT !.unpublished = {}]

\* initialize that takes the stored account and generates a batch of keys again
initialize_account_regenerating(row, identity, first) ==
    IF load_account(row) # None
    THEN [account |-> mark_keys_as_published(
                          generate_one_time_keys(load_account(row)[1], INITIAL_ONE_TIME_KEYS,
                                                 first + INITIAL_ONE_TIME_KEYS)),
          created |-> TRUE]
    ELSE [account |-> mark_keys_as_published(
                          generate_one_time_keys(OlmAccount_new(identity),
                                                 INITIAL_ONE_TIME_KEYS, first)),
          created |-> TRUE]

\* CryptoService::initialize, `match store.load_account().await?`: the stored
\* account, or a new one with its first one-time keys
initialize_account(row, identity, first) ==
    IF load_account(row) # None
    THEN [account |-> load_account(row)[1], created |-> FALSE]
    ELSE [account |-> mark_keys_as_published(
                          generate_one_time_keys(OlmAccount_new(identity),
                                                 INITIAL_ONE_TIME_KEYS, first)),
          created |-> TRUE]

\* CryptoService::establish_outbound_session, run alone
CryptoService_establish_outbound_session(svc, peer_id, their_identity_key, their_one_time_key, base_key, ratchet_key, io) ==
    LET session == create_outbound_session(svc.account, their_identity_key,
                                           their_one_time_key, base_key, ratchet_key)
        s1 == [svc EXCEPT !.vault_account = save_account(svc.account)]
        s2 == [s1 EXCEPT !.vault = save_session(s1.vault, session)]
    IN IF ~io.account_saved THEN [svc |-> svc, result |-> Err("DatabaseError")]
       ELSE IF ~io.session_saved THEN [svc |-> s1, result |-> Err("DatabaseError")]
       ELSE [svc |-> [s2 EXCEPT !.sessions = [s2.sessions EXCEPT ![peer_id] = Some(session)]],
             result |-> Ok(Unit)]

\* the identity keys Account::new may give
AccountIdentities == {KeyIds.alice, KeyIds.alice_again}

\* the one caller of the service
Caller == 1

\* a service is running
Running == acct["alice"] # NoAccount

\* the number of initialisations so far
Starts == sentCount["bob"]

\* the number of calls since the last initialisation
Calls == sentCount["alice"]

LInit ==
    /\ pickleKey \in PickleKeys
    /\ KeyTableIdle
    /\ PIdle
    /\ XIdle
    /\ acct = [alice |-> NoAccount, bob |-> [identity |-> KeyIds.bob, one_time_keys |-> {}, unpublished |-> {}]]
    /\ sess = [p \in Parties |-> None]
    /\ rnet = {}
    /\ delivered = {}
    /\ sentCount = [p \in Parties |-> 0]
    /\ gotReply = [p \in Parties |-> FALSE]
    /\ restored = [p \in Parties |-> FALSE]
    /\ nextKey = KeyIds.fresh
    /\ last = NoLast
    /\ SIdle
    /\ TIdle

\* the variables a call on the service leaves alone
LifeUnchanged ==
    /\ UNCHANGED <<sess, rnet, delivered, gotReply, restored, last, pending, locks>>
    /\ UNCHANGED <<cryptoKeys, klast, wire>>
    /\ UNCHANGED xvars
    /\ UNCHANGED pvars

\* the service and the caller's record after call c returned r
LifeReturn(c, r) ==
    /\ acct' = [acct EXCEPT !["alice"] = r.svc.account]
    /\ sessions' = r.svc.sessions
    /\ vault' = r.svc.vault
    /\ vaultAccount' = r.svc.vault_account
    /\ tasks' = [tasks EXCEPT ![Caller] = [c EXCEPT !.pc = "done", !.result = r.result]]
    /\ sentCount' = [sentCount EXCEPT !["alice"] = @ + 1]

\* the process ends and CryptoService::initialize runs over the vault it left
LifeInitialize(identity, pickle_key, saved, loaded) ==
    /\ Starts < MaxStarts
    /\ pickleKey' = pickle_key
    /\ LET r == initialize_account(vaultAccount, identity, OtkBase + 1)
           c == [NoTask EXCEPT !.op = "initialize", !.pc = "done",
                               !.io.account_saved = IF ~r.created THEN "unused"
                                                    ELSE IF saved THEN "ok" ELSE "failed"]
       IN /\ vaultAccount' = IF r.created /\ saved THEN save_account(r.account)
                             ELSE vaultAccount
          /\ IF (r.created /\ ~saved) \/ ~loaded
             THEN /\ acct' = [acct EXCEPT !["alice"] = NoAccount]
                  /\ sessions' = [k \in PeerIds |-> None]
                  /\ tasks' = [tasks EXCEPT ![Caller] =
                                  [c EXCEPT !.result = Err("DatabaseError")]]
             ELSE /\ acct' = [acct EXCEPT !["alice"] = r.account]
                  /\ sessions' = CryptoService_initialize(vault)
                  /\ tasks' = [tasks EXCEPT ![Caller] = [c EXCEPT !.result = Ok(Unit)]]
    /\ sentCount' = [alice |-> 0, bob |-> sentCount["bob"] + 1]
    /\ UNCHANGED <<vault, nextKey>>
    /\ LifeUnchanged

\* the caller's establish_outbound_session with Bob's keys
LifeEstablishOutbound(peer_id, account_saved, session_saved) ==
    /\ Running
    /\ Calls < MaxCalls
    /\ LET io == [account_saved |-> account_saved, session_saved |-> session_saved]
           c == [NoTask EXCEPT !.op = "establish_outbound", !.peer_id = peer_id,
                               !.ik = Some(KeyIds.bob), !.otk = KeyIds.bob_otk]
       IN LifeReturn(c, CryptoService_establish_outbound_session(
                            TSvc, peer_id, KeyIds.bob, KeyIds.bob_otk,
                            KeyIds.base, KeyIds.ratchet, io))
    /\ UNCHANGED <<pickleKey, nextKey>>
    /\ LifeUnchanged

\* the caller's encrypt
LifeEncrypt(peer_id, pt, session_saved) ==
    /\ Running
    /\ Calls < MaxCalls
    /\ LET io == [account_saved |-> TRUE, session_saved |-> session_saved]
           c == [NoTask EXCEPT !.op = "encrypt", !.peer_id = peer_id, !.pt = pt]
       IN LifeReturn(c, CryptoService_encrypt(TSvc, peer_id, pt, io))
    /\ UNCHANGED <<pickleKey, nextKey>>
    /\ LifeUnchanged

\* Bob's outbound session with the account, built with its one-time key
\* one_time_key, after it encrypted sent messages
RECURSIVE BobSession(_, _)
BobSession(one_time_key, sent) ==
    IF sent = 0
    THEN create_outbound_session(acct["bob"], acct["alice"].identity, one_time_key,
                                 KeyIds.carol_base, KeyIds.carol_ratchet)
    ELSE RatchetSession_encrypt(BobSession(one_time_key, sent - 1), MaxPlain).session

\* message seq of that session, a PreKey message as Bob has decrypted no reply
FirstContact(one_time_key, seq, pt) ==
    RatchetSession_encrypt(BobSession(one_time_key, seq - 1), pt).message

\* the message under the type byte of a Normal message: without session keys
AsNormal(message) == [message EXCEPT !.type = "Normal", !.session_keys = None]

\* the messages of Bob the caller may be given
BobMessages ==
    {FirstContact(OtkBase + 1, seq, pt) : seq \in 1..2, pt \in Plaintexts}
        \cup {AsNormal(FirstContact(OtkBase + 1, 1, MaxPlain))}

\* the ratchet key pair a decrypt generates: one no earlier call generated
FreshKey == OtkBase + INITIAL_ONE_TIME_KEYS + 1 + (Starts * MaxCalls) + Calls

\* the caller's decrypt of a message of Bob
LifeDecrypt(peer_id, their_identity_key, account_saved, session_saved) ==
    /\ Running
    /\ Calls < MaxCalls
    /\ \E message \in BobMessages :
       LET io == [account_saved |-> account_saved, session_saved |-> session_saved]
           c == [NoTask EXCEPT !.op = "decrypt", !.peer_id = peer_id,
                               !.ik = their_identity_key,
                               !.message = Some(message), !.fresh = FreshKey,
                               !.io = [account_saved |-> IF account_saved THEN "ok"
                                                         ELSE "failed",
                                       session_saved |-> IF session_saved THEN "ok"
                                                         ELSE "failed"]]
       IN LifeReturn(c, CryptoService_decrypt(TSvc, peer_id, their_identity_key, message,
                                              FreshKey, io))
    /\ UNCHANGED <<pickleKey, nextKey>>
    /\ LifeUnchanged

\* the caller's delete_session
LifeDeleteSession(peer_id, deleted) ==
    /\ Running
    /\ Calls < MaxCalls
    /\ sessions' = [sessions EXCEPT ![peer_id] = None]
    /\ vault' = IF deleted THEN delete_session(vault, peer_id) ELSE vault
    /\ tasks' = [tasks EXCEPT ![Caller] =
                    [NoTask EXCEPT !.op = "delete_session", !.pc = "done",
                                   !.peer_id = peer_id,
                                   !.result = IF deleted THEN Ok(Unit)
                                              ELSE Err("DatabaseError")]]
    /\ sentCount' = [sentCount EXCEPT !["alice"] = @ + 1]
    /\ UNCHANGED <<acct, vaultAccount, pickleKey, nextKey>>
    /\ LifeUnchanged

\* the caller's delete_all_sessions
LifeDeleteAllSessions(deleted) ==
    /\ Running
    /\ Calls < MaxCalls
    /\ sessions' = [k \in PeerIds |-> None]
    /\ vault' = IF deleted THEN delete_all_sessions(vault) ELSE vault
    /\ tasks' = [tasks EXCEPT ![Caller] =
                    [NoTask EXCEPT !.op = "delete_all_sessions", !.pc = "done",
                                   !.result = IF deleted THEN Ok(Unit)
                                              ELSE Err("DatabaseError")]]
    /\ sentCount' = [sentCount EXCEPT !["alice"] = @ + 1]
    /\ UNCHANGED <<acct, vaultAccount, pickleKey, nextKey>>
    /\ LifeUnchanged

LNext ==
    \/ \E identity \in AccountIdentities, pickle_key \in PickleKeys, saved, loaded \in BOOLEAN :
          LifeInitialize(identity, pickle_key, saved, loaded)
    \/ \E peer_id \in PeerIds, account_saved, session_saved \in BOOLEAN :
          LifeEstablishOutbound(peer_id, account_saved, session_saved)
    \/ \E peer_id \in PeerIds, pt \in Plaintexts, session_saved \in BOOLEAN :
          LifeEncrypt(peer_id, pt, session_saved)
    \/ \E peer_id \in PeerIds, k \in {None, Some(KeyIds.bob)}, account_saved, session_saved \in BOOLEAN :
          LifeDecrypt(peer_id, k, account_saved, session_saved)
    \/ \E peer_id \in PeerIds, deleted \in BOOLEAN : LifeDeleteSession(peer_id, deleted)
    \/ \E deleted \in BOOLEAN : LifeDeleteAllSessions(deleted)

SpecLife == LInit /\ [][LNext]_vars

\* the step is an initialisation that returned a service
Initialized ==
    /\ sentCount'["bob"] = sentCount["bob"] + 1
    /\ tasks'[Caller].result.ok

\* C21: an initialisation over a vault with no account stores one new account
\* with 100 one-time keys; one over a vault with an account leaves the stored
\* account as it is and runs with exactly that account, keys included; either
\* way the cache holds exactly the sessions of the vault, as load_session
\* gives them, and the identity key of a stored account never changes
C21_InitializeIdempotent ==
    [][/\ (Initialized /\ vaultAccount = None) =>
             /\ vaultAccount' # None
             /\ load_account(vaultAccount')[1] = acct'["alice"]
             /\ Cardinality(acct'["alice"].one_time_keys) = 100
       /\ (Initialized /\ vaultAccount # None) =>
             /\ vaultAccount' = vaultAccount
             /\ acct'["alice"] = load_account(vaultAccount)[1]
       /\ Initialized =>
             \A k \in PeerIds :
                 /\ sessions'[k] # None <=> k \in list_peers(vault')
                 /\ sessions'[k] = load_session(vault', k)
       /\ vaultAccount # None =>
             /\ vaultAccount' # None
             /\ load_account(vaultAccount')[1].identity
                   = load_account(vaultAccount)[1].identity]_vars

\* a service was initialised a second time or later over a vault whose account
\* had used one of its one-time keys and which holds a session
C21_Witness ==
    /\ Starts >= 2
    /\ tasks[Caller].op = "initialize"
    /\ tasks[Caller].result.ok
    /\ Cardinality(acct["alice"].one_time_keys) = 99
    /\ sessions["02"] # None

\* the step is the call the caller's record names, made on the running service
Called_op(op) ==
    /\ sentCount'["alice"] = sentCount["alice"] + 1
    /\ tasks'[Caller].op = op

\* the step changed neither the cache, the account nor the vault
ServiceUnchanged ==
    /\ sessions' = sessions
    /\ acct' = acct
    /\ vault' = vault
    /\ vaultAccount' = vaultAccount

\* C22: encrypt for a peer the cache has no session for, and decrypt for such
\* a peer without a sender identity key, return SessionNotFound and leave the
\* cache, the account and the vault as they were
C22_MissingSession ==
    [][/\ (Called_op("encrypt") /\ sessions[tasks'[Caller].peer_id] = None) =>
             /\ tasks'[Caller].result = Err("SessionNotFound")
             /\ ServiceUnchanged
       /\ (Called_op("decrypt") /\ sessions[tasks'[Caller].peer_id] = None
              /\ tasks'[Caller].ik = None) =>
             /\ tasks'[Caller].result = Err("SessionNotFound")
             /\ ServiceUnchanged]_vars

\* encrypt returned SessionNotFound for a peer whose session is in the vault
\* but not in the cache
C22_Witness ==
    /\ tasks[Caller].op = "encrypt"
    /\ tasks[Caller].result = Err("SessionNotFound")
    /\ sessions[tasks[Caller].peer_id] = None
    /\ vault[tasks[Caller].peer_id] # None

\* decrypt without a sender identity key returned SessionNotFound
DecryptWithoutKey ==
    /\ tasks[Caller].op = "decrypt"
    /\ tasks[Caller].ik = None
    /\ tasks[Caller].result = Err("SessionNotFound")

\* the message the caller's decrypt was given in this step
Given == tasks'[Caller].message[1]

\* the peer_id the caller's call names in this step
Peer == tasks'[Caller].peer_id

\* C23: decrypt for a peer without a cached session, given the sender's
\* identity key and a PreKey message built with a one-time key the account
\* holds, returns the plaintext when its vault writes succeed, and then the
\* session is in the cache under the peer_id (has_session) and in the vault;
\* a later message of the same sender session is decrypted by that session,
\* without an identity key and without touching the account; given a Normal
\* message instead, decrypt fails and changes nothing
C23_FirstContactDecrypt ==
    [][/\ (Called_op("decrypt") /\ sessions[Peer] = None
              /\ tasks'[Caller].ik = Some(KeyIds.bob)
              /\ Given.type = "PreKey"
              /\ Given.session_keys[1].otk \in acct["alice"].one_time_keys
              /\ tasks'[Caller].io = [account_saved |-> "ok", session_saved |-> "ok"]) =>
             /\ tasks'[Caller].result = Ok(Given.ct.pt)
             /\ sessions'[Peer] # None
             /\ load_session(vault', HexOf(KeyIds.bob)) = sessions'[Peer]
             /\ Given.session_keys[1].otk \notin acct'["alice"].one_time_keys
       /\ (Called_op("decrypt") /\ sessions[Peer] # None
              /\ Given.type = "PreKey"
              /\ sessions[Peer][1].inner.session_keys = Given.session_keys[1]
              /\ Given.header.n = sessions[Peer][1].inner.Nr
              /\ tasks'[Caller].io.session_saved = "ok") =>
             /\ tasks'[Caller].result = Ok(Given.ct.pt)
             /\ sessions'[Peer][1].messages_received
                   = sessions[Peer][1].messages_received + 1
             /\ acct' = acct
             /\ vaultAccount' = vaultAccount
       /\ (Called_op("decrypt") /\ sessions[Peer] = None /\ Given.type = "Normal") =>
             /\ ~tasks'[Caller].result.ok
             /\ ServiceUnchanged]_vars

\* a first-contact decrypt created the session and a later decrypt, given no
\* identity key, returned the plaintext of the sender's next message
C23_Witness ==
    /\ tasks[Caller].op = "decrypt"
    /\ tasks[Caller].ik = None
    /\ tasks[Caller].result.ok
    /\ sessions[tasks[Caller].peer_id] # None
    /\ sessions[tasks[Caller].peer_id][1].inner.Nr = 2
    /\ Cardinality(acct["alice"].one_time_keys) = 99

\* decrypt was given a Normal message for a peer without a session and failed
NormalFirstContact ==
    /\ tasks[Caller].op = "decrypt"
    /\ tasks[Caller].message[1].type = "Normal"
    /\ tasks[Caller].ik # None
    /\ tasks[Caller].result = Err("X3dhError")

(***************************************************************************)
(* What the prekey catalog publishes (prekeys.rs, keys.rs).                *)
(***************************************************************************)
\* the identity public key the catalog's owner publishes
OwnerPublic == Ed25519Public(manager.identity)

\* the signed prekey record the last call returned, when it was a rotation
Rotated == plast.result[1]

\* C24: every signed prekey record the catalog gives out, from
\* get_signed_prekey, get_bundle or rotate_signed_prekey, whatever rotations,
\* replenishments and consumptions came before, carries a signature over its
\* public key that verifies under the owner's identity public key, and the
\* catalog's bundle passes PreKeyBundle::verify
C24_PublishedSignedPreKeysVerify ==
    /\ SignedPreKey_verify(get_signed_prekey(manager, now), OwnerPublic)
    /\ get_bundle(manager, now).identity_key = OwnerPublic
    /\ PreKeyBundle_verify(get_bundle(manager, now))
    /\ plast.op = "rotate_signed_prekey" => SignedPreKey_verify(Rotated, OwnerPublic)
    /\ handshake.bundle # None =>
          /\ PreKeyBundle_verify(handshake.bundle[1])
          /\ SignedPreKey_verify(handshake.bundle[1].signed_prekey, OwnerPublic)

\* a bundle was fetched after a rotation, a replenishment and a consumption,
\* and the signed prekey was rotated again after the fetch
C24_Witness ==
    /\ handshake.bundle # None
    /\ handshake.bundle[1].signed_prekey.key_id = 1
    /\ handshake.bundle[1].one_time_prekey # None
    /\ handshake.bundle[1].one_time_prekey[1].key_id > 0
    /\ manager.next_prekey_id > InitialBatch
    /\ plast.op = "rotate_signed_prekey"
    /\ Rotated.key_id = 2

\* the pool without the entries of that id, the others in their order
Without(pool, key_id) == SelectSeq(pool, LAMBDA e : e[1] # key_id)

\* the pool holds a key pair under that id
Holds(pool, key_id) == \E i \in DOMAIN pool : pool[i][1] = key_id

\* C25: consume_prekey of an id the pool holds returns the key pair stored
\* under that id and leaves the pool one shorter, every other key in its
\* place and the rest of the manager as it was; called again with that id it
\* returns none; called with an id the pool does not hold it returns none
\* and leaves the manager unchanged
C25_ConsumeExactlyOne ==
    plast.op = "consume_prekey" =>
        LET pool == plast.before.one_time_prekeys
        IN /\ Holds(pool, plast.key_id) =>
                 /\ plast.result # None
                 /\ \E i \in DOMAIN pool : pool[i] = <<plast.key_id, plast.result[1]>>
                 /\ manager.one_time_prekeys = Without(pool, plast.key_id)
                 /\ Len(manager.one_time_prekeys) = Len(pool) - 1
                 /\ [manager EXCEPT !.one_time_prekeys = pool] = plast.before
                 /\ consume_prekey(manager, plast.key_id)
                        = [manager |-> manager, result |-> None]
           /\ ~Holds(pool, plast.key_id) =>
                 /\ plast.result = None
                 /\ manager = plast.before

\* a key in the middle of a replenished pool was consumed
C25_Witness ==
    /\ plast.op = "consume_prekey"
    /\ plast.result # None
    /\ Len(plast.before.one_time_prekeys) > InitialBatch
    /\ plast.before.one_time_prekeys[1][1] < plast.key_id
    /\ plast.key_id < plast.before.one_time_prekeys[Len(plast.before.one_time_prekeys)][1]

\* consume_prekey was called a second time with an id it had consumed
ConsumedAgain ==
    /\ plast.op = "consume_prekey"
    /\ plast.repeated
    /\ plast.result = None
    /\ plast.key_id < manager.next_prekey_id

\* the ids of the pool's key pairs, in the pool's order
PoolIds(pool) == [i \in DOMAIN pool |-> pool[i][1]]

\* the ids of public one-time prekey records, in their order
RecordIds(records) == [i \in DOMAIN records |-> records[i].key_id]

\* the ids first, first + 1, ..., first + count - 1
Sequential(first, count) == [i \in 1..count |-> first + (i - 1)]

\* the manager PreKeyManager::new(identity) builds
NewManager == PreKeyManager_new(Owner, 0, 0)

\* what replenish does to a manager that was never replenished before
FirstReplenish == replenish(NewManager, 100 + 1)

\* new(identity) creates signed prekey id 0 and one-time prekeys 0..99 and sets
\* next_prekey_id to 100; its first replenish creates the ids 100..199
DefaultAllocation ==
    /\ NewManager.signed_prekey_id = 0
    /\ PoolIds(NewManager.one_time_prekeys) = Sequential(0, 100)
    /\ NewManager.next_prekey_id = 100
    /\ RecordIds(FirstReplenish.result) = Sequential(100, 100)
    /\ PoolIds(FirstReplenish.manager.one_time_prekeys) = Sequential(0, 200)
    /\ FirstReplenish.manager.next_prekey_id = 200

\* C26: one-time prekey ids are allocated sequentially.  new(identity) gives
\* signed prekey id 0, the one-time ids 0..99 and next_prekey_id 100; every
\* replenish creates exactly replenishment_batch_size keys with the ids
\* next_prekey_id, next_prekey_id + 1, ..., appends them to the pool, advances
\* next_prekey_id by the batch size, changes nothing else and returns exactly
\* the public records of the new keys; so the pool's ids rise and stay below
\* next_prekey_id
C26_SequentialOtkIds ==
    /\ DefaultAllocation
    /\ \A i, j \in DOMAIN manager.one_time_prekeys :
          i < j => manager.one_time_prekeys[i][1] < manager.one_time_prekeys[j][1]
    /\ \A i \in DOMAIN manager.one_time_prekeys :
          manager.one_time_prekeys[i][1] < manager.next_prekey_id
    /\ plast.op = "replenish" =>
          LET before == plast.before
              batch == before.config.replenishment_batch_size
              old == Len(before.one_time_prekeys)
              new == SubSeq(manager.one_time_prekeys, old + 1, old + batch)
          IN /\ RecordIds(plast.result[1]) = Sequential(before.next_prekey_id, batch)
             /\ Len(manager.one_time_prekeys) = old + batch
             /\ SubSeq(manager.one_time_prekeys, 1, old) = before.one_time_prekeys
             /\ plast.result[1] = [i \in 1..batch |-> OneTimePreKey(new[i][1], new[i][2])]
             /\ manager.next_prekey_id = before.next_prekey_id + batch
             /\ [manager EXCEPT !.one_time_prekeys = before.one_time_prekeys,
                                !.next_prekey_id = before.next_prekey_id] = before

\* the catalog was replenished a second time, after a consumption
C26_Witness ==
    /\ plast.op = "replenish"
    /\ plast.before.next_prekey_id = InitialBatch + ReplenishBatch
    /\ Len(plast.before.one_time_prekeys) < InitialBatch + ReplenishBatch
    /\ manager.next_prekey_id = InitialBatch + (2 * ReplenishBatch)

\* the manager after n calls of consume_prekey, each with the id at the front
\* of the pool
RECURSIVE ConsumeFront(_, _)
ConsumeFront(m, n) ==
    IF n = 0 \/ m.one_time_prekeys = <<>> THEN m
    ELSE ConsumeFront(consume_prekey(m, m.one_time_prekeys[1][1]).manager, n - 1)

\* with the default configuration: not needed right after new(), needed from
\* the consumption that leaves 24 keys on, not needed after a replenish
DefaultReplenishment ==
    /\ ~needs_replenishment(NewManager)
    /\ \A n \in 0..100 :
          needs_replenishment(ConsumeFront(NewManager, n)) <=> (100 - n < 25)
    /\ \A n \in 0..100 :
          ~needs_replenishment(replenish(ConsumeFront(NewManager, n), 100 + 1).manager)

\* C27: needs_replenishment is true exactly when the pool holds fewer keys
\* than min_prekey_count (25 by default): false right after new(), true once
\* consumption has taken the pool below the mark, false after a replenish
\* whose batch is at least the mark
C27_NeedsReplenishment ==
    /\ DefaultReplenishment
    /\ needs_replenishment(manager)
          <=> (prekey_count(manager) < manager.config.min_prekey_count)
    /\ (plast.op = "replenish"
          /\ plast.before.config.replenishment_batch_size
                 >= plast.before.config.min_prekey_count)
        => ~needs_replenishment(manager)

\* consumption took the pool below the mark and a replenish brought it back
C27_Witness ==
    /\ plast.op = "replenish"
    /\ needs_replenishment(plast.before)
    /\ Len(plast.before.one_time_prekeys) < InitialBatch
    /\ ~needs_replenishment(manager)

\* the record rotate_signed_prekey returned has the id after the one before,
\* another public key, and the time of the rotation as its created_at
RotationRecord ==
    plast.op = "rotate_signed_prekey" =>
        /\ Rotated.key_id = plast.before.signed_prekey_id + 1
        /\ Rotated.public_key # plast.before.signed_prekey.public
        /\ Rotated.key_id = manager.signed_prekey_id
        /\ Rotated.public_key = manager.signed_prekey.public
        /\ Rotated.created_at = manager.signed_prekey_created

\* the signed prekey record is the one of the manager's current generation
OfCurrentGeneration(record) ==
    /\ record.key_id = manager.signed_prekey_id
    /\ record.public_key = manager.signed_prekey.public
    /\ record.created_at = manager.signed_prekey_created

\* needs_signed_prekey_rotation and is_expired of a record got now agree
RotationAgreesWithExpiry ==
    needs_signed_prekey_rotation(manager, now)
        <=> SignedPreKey_is_expired(get_signed_prekey(manager, now),
                                    manager.config.signed_prekey_max_age_days, now)

\* C28: rotate_signed_prekey returns a record with the id after the previous
\* one, another public key and the rotation time as created_at; until the
\* next rotation every record of get_signed_prekey and get_bundle has that id,
\* public key and created_at, so needs_signed_prekey_rotation (age strictly
\* above the maximum) and is_expired of the record agree
C28_SignedPreKeyGenerations ==
    /\ RotationRecord
    /\ OfCurrentGeneration(get_signed_prekey(manager, now))
    /\ OfCurrentGeneration(get_bundle(manager, now).signed_prekey)
    /\ RotationAgreesWithExpiry

\* the manager's own answer to needs_signed_prekey_rotation is the age of the
\* generation against the maximum, strictly
RotationByAge ==
    needs_signed_prekey_rotation(manager, now)
        <=> (now - manager.signed_prekey_created > manager.config.signed_prekey_max_age_days)

\* a rotated signed prekey has become too old
RotatedAndAged ==
    /\ manager.signed_prekey_id > 0
    /\ needs_signed_prekey_rotation(manager, now)

(***************************************************************************)
(* The crypto_keys table (sessions.rs) and needs_more_keys (service.rs).   *)
(* A row is its key_type and key_id; its id column is made of the two.     *)
(***************************************************************************)
\* the row save_one_time_prekeys inserts for a key id: id `otk_{key_id}`
OneTimeRow(key_id) == [key_type |-> "one_time_prekey", key_id |-> key_id]

\* the row save_signed_prekey inserts: id `signed_prekey_{key_id}`
SignedRow(key_id) == [key_type |-> "signed_prekey", key_id |-> key_id]

\* SessionStore::save_one_time_prekeys: one INSERT .. ON CONFLICT(id) DO NOTHING
\* for each key in turn; the first `written` of them succeed, and a failed one
\* returns the error with the rows before it left in the table
save_one_time_prekeys(table, prekeys, written) ==
    table \cup {OneTimeRow(prekeys[i]) : i \in 1..written}

\* SessionStore::save_signed_prekey: upsert under the id of that generation
save_signed_prekey(table, key_id) == table \cup {SignedRow(key_id)}

\* SessionStore::delete_one_time_prekey
delete_one_time_prekey(table, key_id) == table \ {OneTimeRow(key_id)}

\* SessionStore::count_one_time_prekeys: COUNT(*) WHERE key_type = 'one_time_prekey',
\* or the error of a query that failed
count_one_time_prekeys(table, readable) ==
    IF readable THEN Ok(Cardinality({row \in table : row.key_type = "one_time_prekey"}))
    ELSE Err("DatabaseError")

\* CryptoService::one_time_key_count
one_time_key_count(table, readable) == count_one_time_prekeys(table, readable)

\* CryptoService::needs_more_keys that answers false when the count is unreadable
needs_more_keys_trusting(table, readable) ==
    LET count == one_time_key_count(table, readable)
    IN IF count.ok THEN count.value[1] < 25 ELSE FALSE

\* CryptoService::needs_more_keys
needs_more_keys(table, readable) ==
    LET count == one_time_key_count(table, readable)
    IN IF count.ok THEN count.value[1] < 25 ELSE TRUE

\* the batches of key ids save_one_time_prekeys is given
KeyBatches == {Sequential(start * KeyRowBatch, KeyRowBatch) : start \in 0..2}

\* the key ids delete_one_time_prekey is given
DeletedIds == {0, KeyRowBatch, 3 * KeyRowBatch}

KInit ==
    /\ XIdle
    /\ RIdle
    /\ SIdle
    /\ TIdle
    /\ PIdle
    /\ pickleKey = 1
    /\ cryptoKeys = {}
    /\ klast = NoKLast
    /\ wire = NoWire

\* the key table is the only thing a call on it changes
OnlyKeyTable ==
    /\ UNCHANGED xvars
    /\ UNCHANGED rvars
    /\ UNCHANGED svars
    /\ UNCHANGED tvars
    /\ UNCHANGED pvars
    /\ UNCHANGED <<pickleKey, wire>>

KSaveOneTimePrekeys(prekeys, written) ==
    /\ cryptoKeys' = save_one_time_prekeys(cryptoKeys, prekeys, written)
    /\ klast' = [op |-> "save_one_time_prekeys", readable |-> written = Len(prekeys),
                 result |-> FALSE]
    /\ OnlyKeyTable

KSaveSignedPrekey(key_id, written) ==
    /\ cryptoKeys' = IF written THEN save_signed_prekey(cryptoKeys, key_id) ELSE cryptoKeys
    /\ klast' = [op |-> "save_signed_prekey", readable |-> written, result |-> FALSE]
    /\ OnlyKeyTable

KDeleteOneTimePrekey(key_id, written) ==
    /\ cryptoKeys' = IF written THEN delete_one_time_prekey(cryptoKeys, key_id)
                     ELSE cryptoKeys
    /\ klast' = [op |-> "delete_one_time_prekey", readable |-> written, result |-> FALSE]
    /\ OnlyKeyTable

KNeedsMoreKeys(readable) ==
    /\ klast' = [op |-> "needs_more_keys", readable |-> readable,
                 result |-> needs_more_keys(cryptoKeys, readable)]
    /\ UNCHANGED cryptoKeys
    /\ OnlyKeyTable

KNext ==
    \/ \E prekeys \in KeyBatches, written \in 0..KeyRowBatch :
          KSaveOneTimePrekeys(prekeys, written)
    \/ \E key_id \in 0..(MaxSignedRows - 1), written \in BOOLEAN :
          KSaveSignedPrekey(key_id, written)
    \/ \E key_id \in DeletedIds, written \in BOOLEAN : KDeleteOneTimePrekey(key_id, written)
    \/ \E readable \in BOOLEAN : KNeedsMoreKeys(readable)

SpecKeyTable == KInit /\ [][KNext]_vars

\* what count_one_time_prekeys returns when the table can be read
StoredCount == count_one_time_prekeys(cryptoKeys, TRUE).value[1]

\* C29: needs_more_keys returns true exactly when count_one_time_prekeys is
\* below 25, and true when the count cannot be read
C29_NeedsMoreKeys ==
    klast.op = "needs_more_keys" =>
        /\ klast.readable => (klast.result <=> StoredCount < 25)
        /\ ~klast.readable => klast.result

\* needs_more_keys answered false with exactly 25 one-time prekeys stored,
\* next to rows of another key type
C29_Witness ==
    /\ klast.op = "needs_more_keys"
    /\ klast.readable
    /\ ~klast.result
    /\ StoredCount = 25
    /\ Cardinality(cryptoKeys) > 25

\* needs_more_keys answered true with 24 one-time prekeys stored
OneBelowTheMark ==
    /\ klast.op = "needs_more_keys"
    /\ klast.readable
    /\ klast.result
    /\ StoredCount = 24

\* needs_more_keys answered true over an unreadable table that held enough keys
UnreadableCount ==
    /\ klast.op = "needs_more_keys"
    /\ ~klast.readable
    /\ klast.result
    /\ StoredCount >= 25

(***************************************************************************)
(* Bytes on the wire (ratchet.rs EncryptedMessage, service.rs              *)
(* HybridEncryptedMessage).  A byte string is a sequence of 0..255.        *)
(***************************************************************************)
\* `x as u8`
U8(x) == x % 256

\* the bytes after the first `from` of them: `bytes[from..].to_vec()`
BytesFrom(bytes, from) == SubSeq(bytes, from + 1, Len(bytes))

\* vodozemac's to_bytes of an olm message: opaque to the layers above, here
\* the session keys of a PreKey message, the ratchet header and the payload
OlmBytes(message) ==
    (IF message.type = "PreKey"
     THEN <<U8(message.session_keys[1].otk), U8(message.session_keys[1].base)>>
     ELSE <<>>)
    \o <<U8(message.header.dh), U8(message.header.pn), U8(message.header.n),
         U8(message.ct.pt)>>

\* EncryptedMessage::from_olm
EncryptedMessage_from_olm(message) ==
    [message_type |-> IF message.type = "PreKey" THEN 0 ELSE 1,
     ciphertext |-> OlmBytes(message)]

\* EncryptedMessage::to_bytes
EncryptedMessage_to_bytes(em) == <<em.message_type>> \o em.ciphertext

\* EncryptedMessage::from_bytes that leaves the type byte in the ciphertext
EncryptedMessage_from_bytes_whole(bytes) ==
    IF bytes = <<>> THEN Err("DecryptionError")
    ELSE Ok([message_type |-> bytes[1], ciphertext |-> bytes])

\* EncryptedMessage::from_bytes
EncryptedMessage_from_bytes(bytes) ==
    IF bytes = <<>> THEN Err("DecryptionError")
    ELSE Ok([message_type |-> bytes[1], ciphertext |-> BytesFrom(bytes, 1)])

\* vodozemac's PreKeyMessage::try_from / Message::try_from accepts the bytes:
\* they have the format OlmBytes gives a message of that kind
OlmParses(kind, bytes) == Len(bytes) = (IF kind = "PreKey" THEN 6 ELSE 4)

\* EncryptedMessage::to_olm: the kind is chosen by the type byte, the
\* ciphertext is parsed as that kind
EncryptedMessage_to_olm(em) ==
    IF em.message_type = 0
    THEN IF OlmParses("PreKey", em.ciphertext)
         THEN Ok([type |-> "PreKey", bytes |-> em.ciphertext])
         ELSE Err("DecryptionError")
    ELSE IF em.message_type = 1
    THEN IF OlmParses("Normal", em.ciphertext)
         THEN Ok([type |-> "Normal", bytes |-> em.ciphertext])
         ELSE Err("DecryptionError")
    ELSE Err("DecryptionError")

\* EncryptedMessage::to_olm returns a message: the type byte is one it knows
\* (whether vodozemac then parses the ciphertext is left to vodozemac)
EncryptedMessage_to_olm_known(em) == em.message_type \in {0, 1}

\* HybridEncryptedMessage::signal
HybridEncryptedMessage_signal(ciphertext, sender_identity) ==
    [mode |-> "Signal", ciphertext |-> ciphertext, sender_identity |-> sender_identity]

\* HybridEncryptedMessage::to_bytes
HybridEncryptedMessage_to_bytes(hm) ==
    <<IF hm.mode = "Legacy" THEN 0 ELSE 1>>
    \o (IF hm.sender_identity # None
        THEN <<U8(Len(hm.sender_identity[1]))>> \o hm.sender_identity[1]
        ELSE <<0>>)
    \o hm.ciphertext

\* HybridEncryptedMessage::from_bytes that takes the ciphertext from byte 2 on
HybridEncryptedMessage_from_bytes_unskipped(bytes) ==
    IF Len(bytes) < 2 THEN Err("DecryptionError")
    ELSE IF bytes[1] \notin {0, 1} THEN Err("DecryptionError")
    ELSE LET identity_len == bytes[2]
         IN IF Len(bytes) < 2 + identity_len THEN Err("DecryptionError")
            ELSE Ok([mode |-> IF bytes[1] = 0 THEN "Legacy" ELSE "Signal",
                     ciphertext |-> BytesFrom(bytes, 2),
                     sender_identity |-> IF identity_len > 0
                                         THEN Some(SubSeq(bytes, 3, 2 + identity_len))
                                         ELSE None])

\* HybridEncryptedMessage::from_bytes
HybridEncryptedMessage_from_bytes(bytes) ==
    IF Len(bytes) < 2 THEN Err("DecryptionError")
    ELSE IF bytes[1] \notin {0, 1} THEN Err("DecryptionError")
    ELSE LET identity_len == bytes[2]
         IN IF Len(bytes) < 2 + identity_len THEN Err("DecryptionError")
            ELSE Ok([mode |-> IF bytes[1] = 0 THEN "Legacy" ELSE "Signal",
                     ciphertext |-> BytesFrom(bytes, 2 + identity_len),
                     sender_identity |-> IF identity_len > 0
                                         THEN Some(SubSeq(bytes, 3, 2 + identity_len))
                                         ELSE None])

\* the bytes CryptoService::encrypt returns for the olm message its session
\* made: `EncryptedMessage::from_olm(&olm_message)` then `encrypted.to_bytes()`
encrypt_bytes(message) == EncryptedMessage_to_bytes(EncryptedMessage_from_olm(message))

\* what CryptoService::decrypt makes of the bytes it is given before its
\* session sees them: `EncryptedMessage::from_bytes(ciphertext)?`
decrypt_parse(bytes) == EncryptedMessage_from_bytes(bytes)

\* the envelope of an olm message in the wire layout: version byte, sender
\* identity length and identity, olm message type byte, olm ciphertext
Envelope(version, sender_identity, message) ==
    <<version>>
    \o (IF sender_identity # None
        THEN <<U8(Len(sender_identity[1]))>> \o sender_identity[1]
        ELSE <<0>>)
    \o <<EncryptedMessage_from_olm(message).message_type>>
    \o OlmBytes(message)

\* the sender identities an envelope may carry: none, or the account's key
SenderIdentities == {None, Some(<<acct["alice"].identity>>)}

\* the caller's last call was an encrypt that returned a message
EncryptReturned ==
    /\ tasks[Caller].op = "encrypt"
    /\ tasks[Caller].result.ok

\* the olm message the session made in the caller's encrypt
Encrypted == tasks[Caller].result.value[1]

\* the bytes are an envelope of the olm message, in the wire layout
IsEnvelopeOf(bytes, message) ==
    \E sender_identity \in SenderIdentities : bytes = Envelope(1, sender_identity, message)

\* C30: the bytes encrypt returns are an envelope in the wire layout: the
\* version byte, the sender identity's length (0 if absent) and the identity,
\* the olm message type byte (0 PreKey, 1 Normal), the ciphertext; and
\* decrypt reads that layout: from an envelope it takes the type byte and the
\* ciphertext of the message, and it rejects an envelope of unknown version
C30_EnvelopeLayout ==
    EncryptReturned =>
        /\ IsEnvelopeOf(encrypt_bytes(Encrypted), Encrypted)
        /\ \A sender_identity \in SenderIdentities :
              /\ decrypt_parse(Envelope(1, sender_identity, Encrypted))
                    = Ok(EncryptedMessage_from_olm(Encrypted))
              /\ LET unknown == decrypt_parse(Envelope(2, sender_identity, Encrypted))
                 IN unknown.ok => ~EncryptedMessage_to_olm_known(unknown.value[1])

\* the bytes encrypt returns are the olm message type byte and the ciphertext,
\* and decrypt reads its bytes as exactly that
TypeByteThenCiphertext ==
    EncryptReturned =>
        /\ encrypt_bytes(Encrypted)
              = <<IF Encrypted.type = "PreKey" THEN 0 ELSE 1>> \o OlmBytes(Encrypted)
        /\ decrypt_parse(encrypt_bytes(Encrypted)) = Ok(EncryptedMessage_from_olm(Encrypted))

\* the wrapper's own layout is the wire layout: wrapping the bytes encrypt
\* returns gives an envelope, and from_bytes reads it back
WrappedIsEnvelope ==
    EncryptReturned =>
        \A sender_identity \in SenderIdentities :
            LET hm == HybridEncryptedMessage_signal(encrypt_bytes(Encrypted), sender_identity)
            IN /\ HybridEncryptedMessage_to_bytes(hm)
                     = Envelope(1, sender_identity, Encrypted)
               /\ HybridEncryptedMessage_from_bytes(HybridEncryptedMessage_to_bytes(hm))
                     = Ok(hm)

(***************************************************************************)
(* Conversions between messages and bytes, each applied to inputs drawn    *)
(* from bounded sets.                                                      *)
(***************************************************************************)
\* the byte values the inputs are made of
ByteValues == {0, 1, 2, 255}

\* the byte strings of up to n bytes
BytesUpTo(n) == UNION {[1..k -> ByteValues] : k \in 0..n}

\* a byte string too long for its length to fit in a u8
LongIdentity == [i \in 1..256 |-> 2]

\* the sender identities a wrapper is built with
WireIdentities ==
    {None} \cup {Some(b) : b \in BytesUpTo(MaxIdentityLen)} \cup {Some(LongIdentity)}

\* the HybridEncryptedMessage values to_bytes is given
HybridMessages ==
    [mode : {"Legacy", "Signal"}, ciphertext : BytesUpTo(1), sender_identity : WireIdentities]

\* the EncryptedMessage values to_bytes and to_olm are given
FramedMessages == [message_type : ByteValues, ciphertext : BytesUpTo(1)]

\* the olm messages from_olm is given
WireMessages ==
    {[type |-> t,
      session_keys |-> IF t = "PreKey"
                       THEN Some([otk |-> OtkBase + 1, identity |-> KeyIds.bob,
                                  base |-> KeyIds.base])
                       ELSE None,
      header |-> [dh |-> dh, pn |-> 0, n |-> n],
      ct |-> [pt |-> pt]] :
        t \in {"PreKey", "Normal"}, dh \in {KeyIds.ratchet, 256 + 1}, n \in 0..1,
        pt \in Plaintexts}

WInit ==
    /\ XIdle
    /\ RIdle
    /\ SIdle
    /\ TIdle
    /\ PIdle
    /\ pickleKey = 1
    /\ cryptoKeys = {}
    /\ klast = NoKLast
    /\ wire = NoWire

\* a conversion changes nothing but its own record
OnlyWire ==
    /\ UNCHANGED xvars
    /\ UNCHANGED rvars
    /\ UNCHANGED svars
    /\ UNCHANGED tvars
    /\ UNCHANGED pvars
    /\ UNCHANGED <<pickleKey, cryptoKeys, klast>>

\* HybridEncryptedMessage::to_bytes, then from_bytes of the bytes
WHybridRoundTrip(hm) ==
    /\ wire' = [op |-> "hybrid_round_trip", given |-> hm,
                bytes |-> HybridEncryptedMessage_to_bytes(hm),
                result |-> HybridEncryptedMessage_from_bytes(
                               HybridEncryptedMessage_to_bytes(hm))]
    /\ OnlyWire

\* HybridEncryptedMessage::from_bytes of any bytes
WHybridFromBytes(bytes) ==
    /\ wire' = [op |-> "hybrid_from_bytes", given |-> <<>>, bytes |-> bytes,
                result |-> HybridEncryptedMessage_from_bytes(bytes)]
    /\ OnlyWire

\* EncryptedMessage::to_bytes, then from_bytes of the bytes
WFrameRoundTrip(em) ==
    /\ wire' = [op |-> "frame_round_trip", given |-> em,
                bytes |-> EncryptedMessage_to_bytes(em),
                result |-> EncryptedMessage_from_bytes(EncryptedMessage_to_bytes(em))]
    /\ OnlyWire

\* EncryptedMessage::from_bytes of any bytes
WFrameFromBytes(bytes) ==
    /\ wire' = [op |-> "frame_from_bytes", given |-> <<>>, bytes |-> bytes,
                result |-> EncryptedMessage_from_bytes(bytes)]
    /\ OnlyWire

\* EncryptedMessage::to_olm of any framed message
WToOlm(em) ==
    /\ wire' = [op |-> "to_olm", given |-> em, bytes |-> <<>>,
                result |-> EncryptedMessage_to_olm(em)]
    /\ OnlyWire

\* from_olm, to_bytes, from_bytes and to_olm in turn, as the sender and the
\* receiver of a message apply them
WOlmRoundTrip(message) ==
    /\ LET bytes == EncryptedMessage_to_bytes(EncryptedMessage_from_olm(message))
           parsed == EncryptedMessage_from_bytes(bytes)
       IN wire' = [op |-> "olm_round_trip", given |-> message, bytes |-> bytes,
                   result |-> IF parsed.ok THEN EncryptedMessage_to_olm(parsed.value[1])
                              ELSE parsed]
    /\ OnlyWire

WNext ==
    \/ \E hm \in HybridMessages : WHybridRoundTrip(hm)
    \/ \E bytes \in BytesUpTo(MaxBytes) : WHybridFromBytes(bytes)
    \/ \E em \in FramedMessages : WFrameRoundTrip(em)
    \/ \E bytes \in BytesUpTo(MaxBytes) : WFrameFromBytes(bytes)
    \/ \E em \in FramedMessages : WToOlm(em)
    \/ \E message \in WireMessages : WOlmRoundTrip(message)

SpecWire == WInit /\ [][WNext]_vars

\* from_bytes was given bytes the wrapper's layout does not admit
Malformed(bytes) ==
    \/ Len(bytes) < 2
    \/ bytes[1] \notin {0, 1}
    \/ bytes[2] > Len(bytes) - 2

\* from_bytes returns an error for input shorter than 2 bytes, for a version
\* byte other than 0 or 1 and for an identity length beyond the bytes left
MalformedRejected ==
    wire.op = "hybrid_from_bytes" =>
        (Malformed(wire.bytes) <=> ~wire.result.ok)

\* C31 as stated: from_bytes(to_bytes(m)) is m, mode, ciphertext and sender
\* identity, for every wrapper m of either mode, any ciphertext and a sender
\* identity that is absent or any byte string; malformed input is an error
C31_HybridRoundTrip ==
    /\ wire.op = "hybrid_round_trip" => wire.result = Ok(wire.given)
    /\ MalformedRejected

\* C31, amended: from_bytes(to_bytes(m)) is m for every wrapper m of either
\* mode, any ciphertext and a sender identity that is absent or has 1 to 255
\* bytes (the length the layout's one length byte can carry, 0 meaning
\* absent); malformed input is an error
C31_RoundTripOfU8Identity ==
    /\ (wire.op = "hybrid_round_trip"
            /\ (wire.given.sender_identity # None =>
                    Len(wire.given.sender_identity[1]) \in 1..255))
        => wire.result = Ok(wire.given)
    /\ MalformedRejected

\* a Signal wrapper with ciphertext and a sender identity went through the
\* round trip
C31_Witness ==
    /\ wire.op = "hybrid_round_trip"
    /\ wire.given.mode = "Signal"
    /\ wire.given.ciphertext # <<>>
    /\ wire.given.sender_identity # None
    /\ Len(wire.given.sender_identity[1]) = MaxIdentityLen
    /\ wire.result = Ok(wire.given)

\* a wrapper with an empty sender identity came back with none
EmptyIdentityTried ==
    /\ wire.op = "hybrid_round_trip"
    /\ wire.given.sender_identity = Some(<<>>)
    /\ wire.result.ok
    /\ wire.result.value[1].sender_identity = None

\* a wrapper with a sender identity of 256 bytes went through the round trip
LongIdentityTried ==
    /\ wire.op = "hybrid_round_trip"
    /\ wire.given.sender_identity = Some(LongIdentity)
    /\ wire.result.ok
    /\ wire.result.value[1].sender_identity = None

\* C32: from_bytes(to_bytes(e)) has the message type and the ciphertext of e;
\* to_olm of what from_bytes restores has the kind of the olm message
\* from_olm was given, PreKey for type 0 and Normal for type 1; from_bytes of
\* no bytes and to_olm of another type byte are decryption errors
C32_FramingRoundTrip ==
    /\ wire.op = "frame_round_trip" => wire.result = Ok(wire.given)
    /\ wire.op = "olm_round_trip" =>
          /\ wire.result.ok
          /\ wire.result.value[1].type = wire.given.type
          /\ wire.bytes[1] = (IF wire.given.type = "PreKey" THEN 0 ELSE 1)
          /\ wire.result.value[1].bytes = OlmBytes(wire.given)
    /\ (wire.op = "frame_from_bytes" /\ wire.bytes = <<>>)
          => wire.result = Err("DecryptionError")
    /\ (wire.op = "to_olm" /\ wire.given.message_type \notin {0, 1})
          => wire.result = Err("DecryptionError")

\* a Normal olm message was framed, serialized, restored and converted back
C32_Witness ==
    /\ wire.op = "olm_round_trip"
    /\ wire.given.type = "Normal"
    /\ wire.given.header.dh > 255
    /\ wire.result.ok
    /\ wire.result.value[1].type = "Normal"

\* to_olm refused a type byte it does not know
UnknownTypeRefused ==
    /\ wire.op = "to_olm"
    /\ wire.given.message_type = 2
    /\ ~wire.result.ok

\* ---------------------------------------------------------------------
\* The counters of a session
\* ---------------------------------------------------------------------

\* RatchetSession::has_received_message
RatchetSession_has_received_message(rs) == rs.messages_received > 0

\* the cached session of the peer decrypted the message given in this step
SessionDecrypted ==
    /\ sessions[Peer] # None
    /\ RatchetSession_decrypt(sessions[Peer][1], Given, tasks'[Caller].fresh).ok

\* the step created a session of the peer from the PreKey message given
InboundCreated ==
    /\ Called_op("decrypt")
    /\ sessions[Peer] = None
    /\ sessions'[Peer] # None

\* the step left the counters of the session of the peer as they were
CountersKept ==
    /\ sessions'[Peer][1].messages_sent = sessions[Peer][1].messages_sent
    /\ sessions'[Peer][1].messages_received = sessions[Peer][1].messages_received

\* C33: of the session of a peer, messages_sent goes up by one with every
\* encrypt call on it and messages_received by one with every message it
\* decrypted, the first PreKey message a new inbound session consumed
\* included; has_received_message is true exactly when the session has
\* received a message
C33_SessionCounters ==
    [][/\ (Called_op("encrypt") /\ sessions[Peer] # None) =>
             /\ sessions'[Peer][1].messages_sent = sessions[Peer][1].messages_sent + 1
             /\ sessions'[Peer][1].messages_received = sessions[Peer][1].messages_received
       /\ (Called_op("decrypt") /\ SessionDecrypted) =>
             /\ sessions'[Peer][1].messages_received
                   = sessions[Peer][1].messages_received + 1
             /\ sessions'[Peer][1].messages_sent = sessions[Peer][1].messages_sent
       /\ (Called_op("decrypt") /\ sessions[Peer] # None /\ ~SessionDecrypted) =>
             CountersKept
       /\ InboundCreated =>
             /\ sessions'[Peer][1].messages_received = 1
             /\ sessions'[Peer][1].messages_sent = 0
       /\ Called_op("establish_outbound") =>
             \A k \in PeerIds :
                 sessions'[k] # sessions[k] =>
                     /\ sessions'[k][1].messages_sent = 0
                     /\ sessions'[k][1].messages_received = 0
       /\ \A k \in PeerIds :
             sessions'[k] # None =>
                 (RatchetSession_has_received_message(sessions'[k][1])
                      <=> sessions'[k][1].inner.received)]_vars

\* the counters of a session move as C33 says in every call on a session the
\* cache already holds, and a new outbound session starts at zero
CountersOfCachedSessions ==
    [][/\ (Called_op("encrypt") /\ sessions[Peer] # None) =>
             /\ sessions'[Peer][1].messages_sent = sessions[Peer][1].messages_sent + 1
             /\ sessions'[Peer][1].messages_received = sessions[Peer][1].messages_received
       /\ (Called_op("decrypt") /\ SessionDecrypted) =>
             /\ sessions'[Peer][1].messages_received
                   = sessions[Peer][1].messages_received + 1
             /\ sessions'[Peer][1].messages_sent = sessions[Peer][1].messages_sent
       /\ (Called_op("decrypt") /\ sessions[Peer] # None /\ ~SessionDecrypted) =>
             CountersKept
       /\ Called_op("establish_outbound") =>
             \A k \in PeerIds :
                 sessions'[k] # sessions[k] =>
                     /\ sessions'[k][1].messages_sent = 0
                     /\ sessions'[k][1].messages_received = 0]_vars

\* a new inbound session counts no message although it decrypted one, and
\* has_received_message is false of it
InboundStartsAtZero ==
    [][InboundCreated =>
          /\ sessions'[Peer][1].inner.received
          /\ sessions'[Peer][1].messages_received = 0
          /\ ~RatchetSession_has_received_message(sessions'[Peer][1])]_vars

\* a session that decrypted its first PreKey message counts no message
InboundCountsNothing ==
    /\ tasks[Caller].op = "decrypt"
    /\ tasks[Caller].result.ok
    /\ sessions[tasks[Caller].peer_id] # None
    /\ sessions[tasks[Caller].peer_id][1].inner.received
    /\ sessions[tasks[Caller].peer_id][1].messages_received = 0
    /\ ~RatchetSession_has_received_message(sessions[tasks[Caller].peer_id][1])

\* ---------------------------------------------------------------------
\* Deleting sessions
\* ---------------------------------------------------------------------

\* the rows of the table that hold the session rs: the one agreed with its
\* base key and one-time key
RowsOf(table, rs) ==
    {k \in list_peers(table) :
        load_session(table, k)[1].inner.session_keys = rs.inner.session_keys}

\* the step is a delete_session that returned Ok
DeletedSession ==
    /\ Called_op("delete_session")
    /\ tasks'[Caller].result.ok

\* the step is a delete_all_sessions that returned Ok
DeletedAllSessions ==
    /\ Called_op("delete_all_sessions")
    /\ tasks'[Caller].result.ok

\* C34: when delete_session(p) returns Ok the cache has no session under p
\* and the vault has neither a row under p nor a row of the session that was
\* cached under p, so that an initialisation right after it gives a cache
\* without a session under p, and the cached sessions of the other peers
\* are as before; when delete_all_sessions returns Ok the cache and the
\* vault are empty, and so is the cache after the next initialisation
C34_SessionDeletion ==
    [][/\ DeletedSession =>
             /\ sessions'[Peer] = None
             /\ vault'[Peer] = None
             /\ sessions[Peer] # None => RowsOf(vault', sessions[Peer][1]) = {}
             /\ CryptoService_initialize(vault')[Peer] = None
             /\ \A k \in PeerIds \ {Peer} : sessions'[k] = sessions[k]
       /\ DeletedAllSessions =>
             /\ \A k \in PeerIds : sessions'[k] = None
             /\ list_peers(vault') = {}
             /\ \A k \in PeerIds : CryptoService_initialize(vault')[k] = None]_vars

\* what holds of deletion by key: the cache and the vault have nothing under
\* the peer_id given, nor has the cache of the next initialisation, every
\* other cache entry and every other row is as before, and
\* delete_all_sessions empties both
DeletionByKey ==
    [][/\ DeletedSession =>
             /\ sessions'[Peer] = None
             /\ vault'[Peer] = None
             /\ CryptoService_initialize(vault')[Peer] = None
             /\ \A k \in PeerIds \ {Peer} :
                    /\ sessions'[k] = sessions[k]
                    /\ vault'[k] = vault[k]
       /\ DeletedAllSessions =>
             /\ \A k \in PeerIds : sessions'[k] = None
             /\ list_peers(vault') = {}
             /\ \A k \in PeerIds : CryptoService_initialize(vault')[k] = None
       /\ (Initialized /\ tasks[Caller].op = "delete_session" /\ tasks[Caller].result.ok) =>
             sessions'[tasks[Caller].peer_id] = None
       /\ (Initialized /\ tasks[Caller].op = "delete_all_sessions"
              /\ tasks[Caller].result.ok) =>
             \A k \in PeerIds : sessions'[k] = None]_vars

\* delete_session returned Ok for the peer_id a session was cached under, and
\* the vault still holds the row of a session
DeletedYetStored ==
    /\ tasks[Caller].op = "delete_session"
    /\ tasks[Caller].result.ok
    /\ tasks[Caller].peer_id = "bob"
    /\ list_peers(vault) = {"02"}

\* delete_all_sessions returned Ok over a vault that held a session
AllDeleted ==
    /\ tasks[Caller].op = "delete_all_sessions"
    /\ tasks[Caller].result.ok
    /\ Starts >= 2
    /\ list_peers(vault) = {}

(***************************************************************************)
(* The one-time keys of the account (ratchet.rs 72-88, service.rs          *)
(* 136-169, 315-325): the vault-life model with the calls that generate,   *)
(* list, publish and count the keys.  A decrypt of a first message uses a  *)
(* key up.                                                                 *)
(***************************************************************************)
\* the largest count generate_one_time_keys is called with
MaxGenerate == 2

\* the first of the keys the next generate_one_time_keys call makes: a key
\* no earlier call and no initialisation made
FirstGenerated == OtkBase + (2 * INITIAL_ONE_TIME_KEYS) + nextKey

\* the (key id, public key) list of the unpublished keys of an account
KeyList(account) == {[key_id |-> k - OtkBase, public |-> k] : k \in one_time_keys(account)}

\* CryptoService::get_one_time_keys
CryptoService_get_one_time_keys(svc) == KeyList(svc.account)

\* CryptoService::generate_one_time_keys that answers with the new keys only
CryptoService_generate_one_time_keys_new(svc, count, first, saved) ==
    LET account == generate_one_time_keys(svc.account, count, first)
    IN IF saved
       THEN [svc |-> [svc EXCEPT !.account = account,
                                 !.vault_account = save_account(account)],
             result |-> Ok(KeyList([account EXCEPT
                                       !.unpublished = first..(first + count - 1)]))]
       ELSE [svc |-> [svc EXCEPT !.account = account], result |-> Err("DatabaseError")]

\* CryptoService::generate_one_time_keys
CryptoService_generate_one_time_keys(svc, count, first, saved) ==
    LET account == generate_one_time_keys(svc.account, count, first)
    IN IF saved
       THEN [svc |-> [svc EXCEPT !.account = account,
                                 !.vault_account = save_account(account)],
             result |-> Ok(KeyList(account))]
       ELSE [svc |-> [svc EXCEPT !.account = account], result |-> Err("DatabaseError")]

\* CryptoService::mark_keys_as_published
CryptoService_mark_keys_as_published(svc, saved) ==
    LET account == mark_keys_as_published(svc.account)
    IN IF saved
       THEN [svc |-> [svc EXCEPT !.account = account,
                                 !.vault_account = save_account(account)],
             result |-> Ok(Unit)]
       ELSE [svc |-> [svc EXCEPT !.account = account], result |-> Err("DatabaseError")]

\* the caller's generate_one_time_keys
AcctGenerateOneTimeKeys(count, saved) ==
    /\ Running
    /\ Calls < MaxCalls
    /\ LifeReturn([NoTask EXCEPT !.op = "generate_one_time_keys", !.otk = count],
                  CryptoService_generate_one_time_keys(TSvc, count, FirstGenerated, saved))
    /\ nextKey' = nextKey + count
    /\ UNCHANGED pickleKey
    /\ LifeUnchanged

\* the caller's mark_keys_as_published
AcctMarkKeysAsPublished(saved) ==
    /\ Running
    /\ Calls < MaxCalls
    /\ LifeReturn([NoTask EXCEPT !.op = "mark_keys_as_published"],
                  CryptoService_mark_keys_as_published(TSvc, saved))
    /\ UNCHANGED <<pickleKey, nextKey>>
    /\ LifeUnchanged

\* the caller's get_one_time_keys
AcctGetOneTimeKeys ==
    /\ Running
    /\ Calls < MaxCalls
    /\ LifeReturn([NoTask EXCEPT !.op = "get_one_time_keys"],
                  [svc |-> TSvc, result |-> Ok(CryptoService_get_one_time_keys(TSvc))])
    /\ UNCHANGED <<pickleKey, nextKey>>
    /\ LifeUnchanged

\* the caller's one_time_key_count
AcctOneTimeKeyCount(readable) ==
    /\ Running
    /\ Calls < MaxCalls
    /\ LifeReturn([NoTask EXCEPT !.op = "one_time_key_count"],
                  [svc |-> TSvc, result |-> one_time_key_count(cryptoKeys, readable)])
    /\ UNCHANGED <<pickleKey, nextKey>>
    /\ LifeUnchanged

\* the caller's needs_more_keys
AcctNeedsMoreKeys(readable) ==
    /\ Running
    /\ Calls < MaxCalls
    /\ LifeReturn([NoTask EXCEPT !.op = "needs_more_keys",
                                 !.io.account_saved = IF readable THEN "ok" ELSE "failed"],
                  [svc |-> TSvc, result |-> Ok(needs_more_keys(cryptoKeys, readable))])
    /\ UNCHANGED <<pickleKey, nextKey>>
    /\ LifeUnchanged

ANext ==
    \/ \E identity \in AccountIdentities, pickle_key \in PickleKeys, saved, loaded \in BOOLEAN :
          LifeInitialize(identity, pickle_key, saved, loaded)
    \/ \E account_saved, session_saved \in BOOLEAN :
          LifeDecrypt("bob", Some(KeyIds.bob), account_saved, session_saved)
    \/ \E count \in 1..MaxGenerate, saved \in BOOLEAN : AcctGenerateOneTimeKeys(count, saved)
    \/ \E saved \in BOOLEAN : AcctMarkKeysAsPublished(saved)
    \/ AcctGetOneTimeKeys
    \/ \E readable \in BOOLEAN : AcctOneTimeKeyCount(readable)
    \/ \E readable \in BOOLEAN : AcctNeedsMoreKeys(readable)

SpecAccount == LInit /\ [][ANext]_vars

\* the unpublished keys of the running account
Unpublished == one_time_keys(acct["alice"])

\* the keys generate_one_time_keys made in this step
Generated == FirstGenerated..(FirstGenerated + tasks'[Caller].otk - 1)

\* C35: one_time_keys gives the keys generated since the last
\* mark_keys_as_published: a generate_one_time_keys(count) adds count new keys
\* to them, answers with the list of the unpublished keys and stores the
\* account; mark_keys_as_published leaves none; no other call adds a key to
\* them, and get_one_time_keys answers with their list and changes nothing
C35_UnpublishedKeys ==
    [][/\ Called_op("generate_one_time_keys") =>
             /\ Unpublished' = Unpublished \cup Generated
             /\ Cardinality(Unpublished') = Cardinality(Unpublished) + tasks'[Caller].otk
             /\ Generated \cap acct["alice"].one_time_keys = {}
             /\ tasks'[Caller].result.ok =>
                   /\ tasks'[Caller].result.value[1] = KeyList(acct'["alice"])
                   /\ load_account(vaultAccount') = Some(acct'["alice"])
       /\ Called_op("mark_keys_as_published") =>
             /\ Unpublished' = {}
             /\ acct'["alice"].one_time_keys = acct["alice"].one_time_keys
       /\ Called_op("get_one_time_keys") =>
             /\ tasks'[Caller].result = Ok(KeyList(acct["alice"]))
             /\ ServiceUnchanged
       /\ (Called_op("decrypt") \/ Called_op("one_time_key_count")
              \/ Called_op("needs_more_keys")) =>
             Unpublished' \subseteq Unpublished
       /\ (Initialized /\ vaultAccount # None) =>
             Unpublished' = one_time_keys(load_account(vaultAccount)[1])]_vars

\* two generate_one_time_keys calls in a row: the second answered with the
\* keys of both
C35_Witness ==
    /\ tasks[Caller].op = "generate_one_time_keys"
    /\ tasks[Caller].result.ok
    /\ Calls = 2
    /\ Cardinality(tasks[Caller].result.value[1]) = 2 * MaxGenerate
    /\ Cardinality(acct["alice"].one_time_keys) = INITIAL_ONE_TIME_KEYS + (2 * MaxGenerate)

\* mark_keys_as_published after a generate_one_time_keys left no unpublished key
PublishedAfterGenerate ==
    /\ tasks[Caller].op = "mark_keys_as_published"
    /\ tasks[Caller].result.ok
    /\ Cardinality(acct["alice"].one_time_keys) > INITIAL_ONE_TIME_KEYS
    /\ Unpublished = {}

\* a new process lists the keys an earlier one generated and did not publish
UnpublishedAfterRestart ==
    /\ Starts = 2
    /\ tasks[Caller].op = "get_one_time_keys"
    /\ tasks[Caller].result.value[1] # {}

\* ---------------------------------------------------------------------
\* The key of a session in the cache and in the vault
\* ---------------------------------------------------------------------

\* the peer_ids the cache holds a session under
CacheKeys(cache) == {k \in PeerIds : cache[k] # None}

\* the step is a call that returned Ok and put a new session into the cache
\* under the peer_id it was given
SessionEstablished ==
    /\ tasks'[Caller].result.ok
    /\ \/ Called_op("establish_outbound")
       \/ Called_op("decrypt") /\ sessions[Peer] = None

\* C36: when establish_outbound_session or a first-contact decrypt returns Ok
\* for a peer_id, the cache holds a session under it, so does the cache a
\* new initialisation builds from the vault, with the same session, so that
\* encrypt for the peer goes on; and after every call that returned Ok and
\* after every initialisation the peer_ids of the cache are those of the vault
C36_CacheKeyIsVaultKey ==
    [][/\ SessionEstablished =>
             /\ sessions'[Peer] # None
             /\ CryptoService_initialize(vault')[Peer] = sessions'[Peer]
       /\ ((sentCount' # sentCount) /\ tasks'[Caller].result.ok) =>
             CacheKeys(sessions') = list_peers(vault')]_vars

\* what holds whatever the peer_id: the session is in the cache under the
\* peer_id given and in the vault under the hex encoding of the peer's identity
\* key, so that the statement of C36 holds of a call whose peer_id is that
\* hex encoding and that ran over a cache and a vault whose keys agreed
KeysOfAnEstablishedSession ==
    [][SessionEstablished =>
          /\ sessions'[Peer] # None
          /\ load_session(vault', HexOf(KeyIds.bob)) = sessions'[Peer]
          /\ CryptoService_initialize(vault')[HexOf(KeyIds.bob)] = sessions'[Peer]
          /\ (Peer = HexOf(KeyIds.bob) /\ CacheKeys(sessions) = list_peers(vault)) =>
                CacheKeys(sessions') = list_peers(vault')]_vars

\* a session was established under a peer_id other than the hex encoding of
\* the peer's identity key, and the service initialised anew has no session
\* under that peer_id
LostAfterRestart ==
    /\ tasks[Caller].op = "establish_outbound"
    /\ tasks[Caller].result.ok
    /\ tasks[Caller].peer_id = "bob"
    /\ sessions["bob"] # None
    /\ CryptoService_initialize(vault)["bob"] = None
    /\ CryptoService_initialize(vault)["02"] # None

\* a session was established under the hex encoding of the peer's identity
\* key, and cache and vault have the same keys
KeptAfterRestart ==
    /\ tasks[Caller].op = "establish_outbound"
    /\ tasks[Caller].result.ok
    /\ tasks[Caller].peer_id = "02"
    /\ CacheKeys(sessions) = {"02"}
    /\ list_peers(vault) = {"02"}

(***************************************************************************)
(* The two locks of the service (service.rs 136-169, 180-306, 336-346):    *)
(* the concurrent callers of the task model, with the calls that delete    *)
(* sessions and the calls that write the account.                          *)
(***************************************************************************)
\* the variables the added steps leave alone
LockStepUnchanged ==
    /\ UNCHANGED <<sess, rnet, delivered, sentCount, gotReply, restored, last, pending>>
    /\ UNCHANGED xvars
    /\ UNCHANGED pvars
    /\ UNCHANGED kvars

\* a caller starts a call that takes no argument the steps look at
TaskCall(t, op, pc) ==
    /\ tasks[t].pc = "idle"
    /\ tasks' = [tasks EXCEPT ![t] = [NoTask EXCEPT !.pc = pc, !.op = op, !.after = Done]]
    /\ UNCHANGED <<locks, vaultAccount, sessions, vault, acct, nextKey>>
    /\ LockStepUnchanged

\* a caller starts CryptoService::delete_session
TaskCallDeleteSession(t, peer_id) ==
    /\ tasks[t].pc = "idle"
    /\ tasks' = [tasks EXCEPT ![t] = [NoTask EXCEPT !.pc = "delete", !.op = "delete_session",
                                                    !.peer_id = peer_id, !.after = Done]]
    /\ UNCHANGED <<locks, vaultAccount, sessions, vault, acct, nextKey>>
    /\ LockStepUnchanged

\* a caller starts CryptoService::delete_all_sessions
TaskCallDeleteAllSessions(t) == TaskCall(t, "delete_all_sessions", "delete")

\* a caller starts CryptoService::generate_one_time_keys
TaskCallGenerateOneTimeKeys(t, count) ==
    /\ tasks[t].pc = "idle"
    /\ tasks' = [tasks EXCEPT ![t] = [NoTask EXCEPT !.pc = "write_account",
                                                    !.op = "generate_one_time_keys",
                                                    !.otk = count, !.after = Done]]
    /\ UNCHANGED <<locks, vaultAccount, sessions, vault, acct, nextKey>>
    /\ LockStepUnchanged

\* a caller starts CryptoService::mark_keys_as_published
TaskCallMarkKeysAsPublished(t) == TaskCall(t, "mark_keys_as_published", "write_account")

\* delete_session and delete_all_sessions: `self.sessions.write().await` is
\* granted and the cache entries are removed
TaskLockDelete(t) ==
    /\ tasks[t].pc = "delete"
    /\ locks.sessions = 0
    /\ locks.sessions_readers = {}
    /\ sessions' = IF tasks[t].op = "delete_session"
                   THEN [sessions EXCEPT ![tasks[t].peer_id] = None]
                   ELSE [k \in DOMAIN sessions |-> None]
    /\ locks' = [locks EXCEPT !.sessions = t]
    /\ tasks' = [tasks EXCEPT ![t].pc = "delete_rows"]
    /\ UNCHANGED <<vaultAccount, vault, acct, nextKey>>
    /\ LockStepUnchanged

\* the locks after delete_session returned without dropping its guard
delete_session_return_holding(l, t) == l

\* the locks after delete_session or delete_all_sessions of task t returned:
\* the write guard on the cache is dropped
delete_session_return(l, t) == [l EXCEPT !.sessions = 0]

\* delete_session and delete_all_sessions: the DELETE on the vault returns
TaskDeleteRows(t, deleted) ==
    /\ tasks[t].pc = "delete_rows"
    /\ vault' = IF ~deleted THEN vault
                ELSE IF tasks[t].op = "delete_session"
                THEN delete_session(vault, tasks[t].peer_id)
                ELSE delete_all_sessions(vault)
    /\ tasks' = [tasks EXCEPT ![t] =
                    [Return(t, IF deleted THEN Ok(Unit) ELSE Err("DatabaseError"))
                        EXCEPT !.io.session_saved = IF deleted THEN "ok" ELSE "failed"]]
    /\ locks' = delete_session_return(locks, t)
    /\ UNCHANGED <<vaultAccount, sessions, acct, nextKey>>
    /\ LockStepUnchanged

\* generate_one_time_keys and mark_keys_as_published:
\* `self.account.write().await` is granted and the account is changed
TaskWriteAccount(t) ==
    /\ tasks[t].pc = "write_account"
    /\ locks.account = 0
    /\ locks.account_readers = {}
    /\ IF tasks[t].op = "generate_one_time_keys"
       THEN /\ acct' = [acct EXCEPT !["alice"] =
                           generate_one_time_keys(@, tasks[t].otk, nextKey)]
            /\ nextKey' = nextKey + tasks[t].otk
       ELSE /\ acct' = [acct EXCEPT !["alice"] = mark_keys_as_published(@)]
            /\ UNCHANGED nextKey
    /\ locks' = [locks EXCEPT !.account = t]
    /\ tasks' = [tasks EXCEPT ![t].pc = "save_own_account"]
    /\ UNCHANGED <<vaultAccount, sessions, vault>>
    /\ LockStepUnchanged

\* generate_one_time_keys and mark_keys_as_published:
\* `self.store.save_account(&account).await?` returns, and so does the call
TaskSaveOwnAccount(t, saved) ==
    /\ tasks[t].pc = "save_own_account"
    /\ vaultAccount' = IF saved THEN save_account(acct["alice"]) ELSE vaultAccount
    /\ tasks' = [tasks EXCEPT ![t] =
                    [Return(t, IF ~saved THEN Err("DatabaseError")
                               ELSE IF tasks[t].op = "generate_one_time_keys"
                               THEN Ok(KeyList(acct["alice"]))
                               ELSE Ok(Unit))
                        EXCEPT !.io.account_saved = IF saved THEN "ok" ELSE "failed"]]
    /\ locks' = [locks EXCEPT !.account = 0]
    /\ UNCHANGED <<sessions, vault, acct, nextKey>>
    /\ LockStepUnchanged

\* a step of the call of task t: a lock is granted to it or a vault
\* operation of it returns
TaskStep(t) ==
    \/ TaskLockSessions(t)
    \/ TaskLockAccount(t)
    \/ TaskReadAccount(t)
    \/ TaskReadSessions(t)
    \/ \E k \in TaskPeers, saved \in BOOLEAN : TaskPersistSession(t, k, saved)
    \/ \E saved \in BOOLEAN : TaskSaveAccount(t, saved)
    \/ \E saved \in BOOLEAN : TaskSaveSession(t, saved)
    \/ TaskInsert(t)
    \/ TaskLockDelete(t)
    \/ \E deleted \in BOOLEAN : TaskDeleteRows(t, deleted)
    \/ TaskWriteAccount(t)
    \/ \E saved \in BOOLEAN : TaskSaveOwnAccount(t, saved)

\* a caller starts a call; what the call is given beyond the peer_id and the
\* sender's key has no part in which lock it takes
TaskCalls(t) ==
    \/ \E peer_id \in TaskPeers : TaskCallEncrypt(t, peer_id, MaxPlain)
    \/ \E peer_id \in TaskPeers, k \in {None, Some(KeyIds.bob)}, m \in rnet :
          TaskCallDecrypt(t, peer_id, k, m)
    \/ \E peer_id \in TaskPeers : TaskCallEstablishOutbound(t, peer_id)
    \/ TaskCallPersist(t)
    \/ \E peer_id \in TaskPeers : TaskCallDeleteSession(t, peer_id)
    \/ TaskCallDeleteAllSessions(t)
    \/ TaskCallGenerateOneTimeKeys(t, MaxGenerate)
    \/ TaskCallMarkKeysAsPublished(t)

\* Bob encrypts his first-contact message for Alice
LockPeerSend ==
    /\ sentCount["bob"] = 0
    /\ TaskPeerSend(MaxPlain)

LockNext ==
    \/ \E t \in Tasks : TaskCalls(t)
    \/ \E t \in Tasks : TaskStep(t)
    \/ LockPeerSend

\* some call goes on when one can: the runtime polls the tasks whose lock is
\* free or whose vault operation has completed
SpecLocks == TInit /\ [][LockNext]_vars /\ WF_vars(\E t \in Tasks : TaskStep(t))

\* the call of task t is under way
UnderWay(t) == tasks[t].pc \notin {"idle", "done"}

\* the call of task t waits for the write or read lock on the account
WantsAccount(t) == tasks[t].pc \in {"establish", "persist", "write_account"}

\* task t holds the lock on the session cache, for writing or for reading
HoldsSessions(t) == locks.sessions = t \/ t \in locks.sessions_readers

\* task t holds the lock on the account, for writing or for reading
HoldsAccount(t) == locks.account = t \/ t \in locks.account_readers

\* the lock task t waits for is free for it
Granted(t) ==
    LET pc == tasks[t].pc
    IN /\ pc \in {"start", "insert", "delete"} =>
              locks.sessions = 0 /\ locks.sessions_readers = {}
       /\ pc = "persist_lock" => locks.sessions = 0
       /\ pc \in {"establish", "write_account"} =>
              locks.account = 0 /\ locks.account_readers = {}
       /\ pc = "persist" => locks.account = 0

\* no call waits for the account lock while it holds the lock on the cache,
\* some call under way can always take a step, and a call that has returned
\* holds no lock
LocksInOrder ==
    /\ \A t \in Tasks : WantsAccount(t) => ~HoldsSessions(t)
    /\ (\E t \in Tasks : UnderWay(t)) => \E t \in Tasks : UnderWay(t) /\ Granted(t)
    /\ \A t \in Tasks : ~UnderWay(t) => ~HoldsSessions(t) /\ ~HoldsAccount(t)

\* C37: the locks of the service cannot deadlock: no call requests the
\* account lock while it holds the lock on the session cache, in every state
\* with a call under way some call can take its next step, and every call
\* that was started returns
C37_NoDeadlock ==
    /\ []LocksInOrder
    /\ \A t \in Tasks : UnderWay(t) ~> (tasks[t].pc = "done")

\* two calls hold one lock each: a decrypt that found no session holds the
\* account lock and stores its new session, and will ask for the lock on the
\* cache that a delete_all_sessions holds
C37_Witness ==
    \E t, u \in Tasks :
        /\ tasks[t].op = "decrypt" /\ tasks[t].pc = "save_new_session"
        /\ HoldsAccount(t)
        /\ tasks[u].op = "delete_all_sessions" /\ tasks[u].pc = "delete_rows"
        /\ HoldsSessions(u)

\* ---------------------------------------------------------------------
\* The ids of the one-time prekeys
\* ---------------------------------------------------------------------

\* the ids of the one-time prekeys a manager holds
HeldIds(m) == {m.one_time_prekeys[i][1] : i \in DOMAIN m.one_time_prekeys}

\* no two one-time prekeys of the manager have the same id, and every id is
\* below next_prekey_id
IdsDistinctAndAllocated(m) ==
    /\ Cardinality(HeldIds(m)) = Len(m.one_time_prekeys)
    /\ \A id \in HeldIds(m) : id < m.next_prekey_id

\* C38: the one-time prekeys a manager holds have pairwise distinct ids, all
\* below next_prekey_id; next_prekey_id never decreases; and an id a step
\* brings into the pool was never allocated before, so that the id of a
\* consumed key is not given to another key
C38_OtkIdsUnique ==
    [][/\ IdsDistinctAndAllocated(manager)
       /\ IdsDistinctAndAllocated(manager')
       /\ manager'.next_prekey_id >= manager.next_prekey_id
       /\ \A id \in HeldIds(manager') \ HeldIds(manager) :
             /\ id >= manager.next_prekey_id
             /\ \A i, j \in DOMAIN manager'.one_time_prekeys :
                    (manager'.one_time_prekeys[i][1] = id
                        /\ manager'.one_time_prekeys[j][1] = id) => i = j]_vars

\* a replenish filled a pool from which the keys 0 and 1 had been consumed:
\* the new keys have new ids and the ids 0 and 1 stay unused
C38_Witness ==
    /\ plast.op = "replenish"
    /\ HeldIds(plast.before) \cap {0, 1} = {}
    /\ HeldIds(manager) \cap {0, 1} = {}
    /\ HeldIds(manager) \ HeldIds(plast.before) # {}
    /\ manager.next_prekey_id > plast.before.next_prekey_id

\* ---------------------------------------------------------------------
\* Counting the one-time keys of the account
\* ---------------------------------------------------------------------

\* the number of one-time keys the running account holds
KeysHeld == Cardinality(acct["alice"].one_time_keys)

\* the step is a one_time_key_count that could read the vault
CountedKeys ==
    /\ Called_op("one_time_key_count")
    /\ tasks'[Caller].result.ok

\* the step is a needs_more_keys that could read the vault
AskedForMoreKeys ==
    /\ Called_op("needs_more_keys")
    /\ tasks'[Caller].io.account_saved = "ok"

\* C39: one_time_key_count returns the number of one-time keys the account
\* holds, which is 100 after the initialisation that created the account and
\* one less after every decrypt that created an inbound session, and
\* needs_more_keys returns false while the account holds 25 keys or more
C39_KeyCountOfAccount ==
    [][/\ CountedKeys => tasks'[Caller].result.value[1] = KeysHeld
       /\ AskedForMoreKeys => (tasks'[Caller].result.value[1] <=> KeysHeld < 25)
       /\ (Initialized /\ vaultAccount = None) =>
             Cardinality(acct'["alice"].one_time_keys) = INITIAL_ONE_TIME_KEYS
       /\ (Called_op("decrypt") /\ sessions[Peer] = None /\ tasks'[Caller].result.ok) =>
             Cardinality(acct'["alice"].one_time_keys) = KeysHeld - 1]_vars

\* what the calls answer: the number of one-time prekey rows of the key
\* table, which no call of the service writes, so a count of 0 and a need
\* for more keys whatever the account holds
CountOfKeyTable ==
    [][/\ cryptoKeys' = {}
       /\ CountedKeys => tasks'[Caller].result.value[1] = 0
       /\ Called_op("needs_more_keys") => tasks'[Caller].result.value[1]
       /\ (Initialized /\ vaultAccount = None) =>
             Cardinality(acct'["alice"].one_time_keys) = INITIAL_ONE_TIME_KEYS
       /\ (Called_op("decrypt") /\ sessions[Peer] = None /\ tasks'[Caller].result.ok) =>
             Cardinality(acct'["alice"].one_time_keys) = KeysHeld - 1]_vars

\* needs_more_keys answered true for an account with 99 one-time keys
MoreKeysWantedAtNinetyNine ==
    /\ tasks[Caller].op = "needs_more_keys"
    /\ tasks[Caller].io.account_saved = "ok"
    /\ tasks[Caller].result.value[1]
    /\ KeysHeld = 99

\* ---------------------------------------------------------------------
\* The first one-time keys and their publication
\* ---------------------------------------------------------------------

\* the service runs on the account its initialisation has just created over
\* an empty vault, and no call was made on it yet
FirstRun ==
    /\ Running
    /\ Starts = 1
    /\ Calls = 0

\* C40: the 100 one-time keys the first initialisation generates can be
\* published: get_one_time_keys, called on the new service before any
\* mark_keys_as_published, returns those 100 keys
C40_InitialKeysPublishable ==
    [][(FirstRun /\ Called_op("get_one_time_keys")) =>
          /\ tasks'[Caller].result
                = Ok(KeyList([acct["alice"] EXCEPT
                                 !.unpublished = acct["alice"].one_time_keys]))
          /\ Cardinality(tasks'[Caller].result.value[1]) = INITIAL_ONE_TIME_KEYS]_vars

\* what the new service does: it holds 100 keys, all marked as published by
\* the initialisation, so get_one_time_keys returns none of them; the keys
\* of a later generate_one_time_keys it does return
InitialKeysMarked ==
    [][/\ FirstRun =>
             /\ KeysHeld = INITIAL_ONE_TIME_KEYS
             /\ Unpublished = {}
       /\ (FirstRun /\ Called_op("get_one_time_keys")) =>
             tasks'[Caller].result = Ok({})
       /\ (FirstRun /\ Called_op("generate_one_time_keys") /\ tasks'[Caller].result.ok) =>
             Cardinality(tasks'[Caller].result.value[1]) = tasks'[Caller].otk]_vars

\* get_one_time_keys, the first call on the new service, returned no key
NothingToPublish ==
    /\ Starts = 1
    /\ Calls = 1
    /\ tasks[Caller].op = "get_one_time_keys"
    /\ tasks[Caller].result = Ok({})
    /\ KeysHeld = INITIAL_ONE_TIME_KEYS

====
